---- MODULE Spec2Model ----
(***************************************************************************)
(* A model of the ULCA session core (src/universal_claude_agent.py) and of *)
(* the two surfaces that drive it: the interactive loop of the same file   *)
(* and the desktop window of src/ulca_gui.py.                              *)
(*                                                                         *)
(* Texts are sequences of one-character strings, so that lower(), strip(), *)
(* startswith(), find() and slicing are computed as Python computes them.  *)
(***************************************************************************)
EXTENDS Integers, Sequences, FiniteSets, TLC

\* ------------------------------------------------------------------------
\* Bounds of the model
\* ------------------------------------------------------------------------

\* ordinary turns are accepted while the history is shorter than this
MaxHistory == 1

\* the readings of the wall clock are 0..MaxClock
MaxClock ==
    1

\* entries a history holds at most in the store specification
MaxStored ==
    2

\* entries a stored history holds at most in the prompt specification
MaxEntries ==
    11

\* the replies the interpreter is run on have up to this many lines
MaxLines == 2

\* ------------------------------------------------------------------------
\* Program constants
\* ------------------------------------------------------------------------

MAX_RETRIES == 3

\* time.sleep(5) of the Timeout handler
TIMEOUT_DELAY == 5

\* response[start_idx - 100 : start_idx + 200]
SNIPPET_BEFORE == 100

SNIPPET_AFTER == 200

\* ------------------------------------------------------------------------
\* Python str operations on texts
\* ------------------------------------------------------------------------

Uppers ==
    <<"A","B","C","D","E","F","G","H","I","J","K","L","M","N","O","P","Q","R","S","T","U","V","W","X","Y","Z">>

Lowers ==
    <<"a","b","c","d","e","f","g","h","i","j","k","l","m","n","o","p","q","r","s","t","u","v","w","x","y","z">>

Digits ==
    { "0", "1", "2", "3", "4", "5", "6", "7", "8", "9" }

Whitespace ==
    { " ", "\t", "\n", "\r", "\f" }

LowerChar(c) ==
    IF \E i \in 1..Len(Uppers) : Uppers[i] = c
    THEN Lowers[CHOOSE i \in 1..Len(Uppers) : Uppers[i] = c]
    ELSE c

\* str.lower()
Lower(s) ==
    [i \in 1..Len(s) |-> LowerChar(s[i])]

SetMin(S) ==
    CHOOSE x \in S : \A y \in S : x <= y

SetMax(S) ==
    CHOOSE x \in S : \A y \in S : y <= x

\* str.lstrip()
RECURSIVE LStrip(_)
LStrip(s) ==
    IF s # <<>> /\ Head(s) \in Whitespace THEN LStrip(Tail(s)) ELSE s

\* str.rstrip()
RECURSIVE RStrip(_)
RStrip(s) ==
    IF s # <<>> /\ s[Len(s)] \in Whitespace THEN RStrip(SubSeq(s, 1, Len(s) - 1)) ELSE s

\* str.strip()
Strip(s) ==
    RStrip(LStrip(s))

\* s[a:b] for 0 <= a and 0 <= b <= len(s)
Slice(s, a, b) ==
    SubSeq(s, a + 1, b)

\* str.startswith(p)
StartsWith(s, p) ==
    /\ Len(p) <= Len(s)
    /\ SubSeq(s, 1, Len(p)) = p

\* the 0-based indices at which p occurs in s
Occurrences(s, p) ==
    { i \in 0..(Len(s) - Len(p)) : SubSeq(s, i + 1, i + Len(p)) = p }

\* str.find(p)
Find(s, p) ==
    IF Occurrences(s, p) = {} THEN -1 ELSE SetMin(Occurrences(s, p))

\* p in s
Contains(s, p) ==
    Occurrences(s, p) # {}

\* str.split('\n')
RECURSIVE SplitLines(_)
SplitLines(s) ==
    LET breaks == { i \in 1..Len(s) : s[i] = "\n" }
    IN  IF breaks = {}
        THEN << s >>
        ELSE << SubSeq(s, 1, SetMin(breaks) - 1) >>
             \o SplitLines(SubSeq(s, SetMin(breaks) + 1, Len(s)))

\* '\n'.join(lines)
RECURSIVE JoinLines(_)
JoinLines(lines) ==
    IF Len(lines) = 1
    THEN lines[1]
    ELSE lines[1] \o << "\n" >> \o JoinLines(Tail(lines))

Max2(a, b) ==
    IF a >= b THEN a ELSE b

Min2(a, b) ==
    IF a <= b THEN a ELSE b

\* the lists list(set) can produce from a set: every order, no repetition
ListsOf(S) ==
    { q \in [1..Cardinality(S) -> S] : \A i, j \in 1..Cardinality(S) : i # j => q[i] # q[j] }

SeqToSet(q) ==
    { q[i] : i \in 1..Len(q) }

\* ------------------------------------------------------------------------
\* Texts of the program
\* ------------------------------------------------------------------------

\* the marker process_user_input and _test_llm_connection branch on
ErrorMarker ==
    <<"E","r","r","o","r",":">>

ErrUnexpectedFormat ==
    <<"E","r","r","o","r",":"," ","U","n","e","x","p","e","c","t","e","d"," ","r","e","s","p","o","n","s","e"," ","f","o","r","m","a","t"," ","f","r","o","m"," ","L","L","M">>

ErrTimeout ==
    <<"E","r","r","o","r",":"," ","L","L","M"," ","r","e","q","u","e","s","t"," ","t","i","m","e","d"," ","o","u","t"," ","a","f","t","e","r"," ","3"," ","a","t","t","e","m","p","t","s","."," ","T","h","e"," ","m","o","d","e","l"," ","m","i","g","h","t"," ","b","e"," ","b","u","s","y"," ","o","r"," ","t","o","o"," ","s","l","o","w",".">>

ErrConnect ==
    <<"E","r","r","o","r",":"," ","F","a","i","l","e","d"," ","t","o"," ","c","o","n","n","e","c","t"," ","t","o"," ","L","L","M"," ","a","f","t","e","r"," ","3"," ","a","t","t","e","m","p","t","s","."," ","C","h","e","c","k"," ","i","f"," ","O","l","l","a","m","a"," ","i","s"," ","r","u","n","n","i","n","g",".">>

\* the text of the exception is appended in the program
ErrCommunicate ==
    <<"E","r","r","o","r",":"," ","F","a","i","l","e","d"," ","t","o"," ","c","o","m","m","u","n","i","c","a","t","e"," ","w","i","t","h"," ","L","L","M"," ","a","f","t","e","r"," ","3"," ","a","t","t","e","m","p","t","s",":"," ">>

ErrUnexpected ==
    <<"E","r","r","o","r",":"," ","U","n","e","x","p","e","c","t","e","d"," ","e","r","r","o","r"," ","c","a","l","l","i","n","g"," ","L","L","M",":"," ">>

ErrNoResponse ==
    <<"E","r","r","o","r",":"," ","F","a","i","l","e","d"," ","t","o"," ","g","e","t"," ","r","e","s","p","o","n","s","e"," ","f","r","o","m"," ","L","L","M">>

Apology ==
    <<"I","'","m"," ","s","o","r","r","y",","," ","b","u","t"," ","I"," ","e","n","c","o","u","n","t","e","r","e","d"," ","a","n"," ","e","r","r","o","r"," ","c","o","m","m","u","n","i","c","a","t","i","n","g"," ","w","i","t","h"," ","m","y"," ","l","o","c","a","l"," ","C","l","a","u","d","e"," ","m","o","d","e","l","."," ","P","l","e","a","s","e"," ","c","h","e","c","k"," ","t","h","a","t"," ","t","h","e"," ","m","o","d","e","l"," ","i","s"," ","r","u","n","n","i","n","g"," ","a","n","d"," ","a","c","c","e","s","s","i","b","l","e",".">>

AwaitingMarker ==
    <<"A","W","A","I","T","I","N","G","_","C","O","N","F","I","R","M","A","T","I","O","N">>

NoPendingNotice ==
    <<"N","o"," ","c","o","n","f","i","r","m","a","t","i","o","n"," ","p","e","n","d","i","n","g">>

CancelNotice ==
    <<"A","c","t","i","o","n"," ","c","a","n","c","e","l","l","e","d"," ","b","y"," ","u","s","e","r","."," ","W","h","a","t"," ","w","o","u","l","d"," ","y","o","u"," ","l","i","k","e"," ","t","o"," ","d","o"," ","i","n","s","t","e","a","d","?">>

ExitNotice ==
    <<"C","o","n","f","i","r","m","a","t","i","o","n"," ","m","o","d","e"," ","e","x","i","t","e","d","."," ","W","h","a","t"," ","w","o","u","l","d"," ","y","o","u"," ","l","i","k","e"," ","t","o"," ","d","o","?">>

ErrContinuing ==
    <<"E","r","r","o","r"," ","c","o","n","t","i","n","u","i","n","g"," ","w","i","t","h"," ","a","c","t","i","o","n",":"," ">>

Clarification(user_input) ==
    <<"I"," ","d","i","d","n","'","t"," ","u","n","d","e","r","s","t","a","n","d"," ","y","o","u","r"," ","r","e","s","p","o","n","s","e"," ","'">> \o user_input
    \o <<"'","."," ","P","l","e","a","s","e"," ","r","e","s","p","o","n","d"," ","w","i","t","h"," ","'","y","e","s","'",","," ","'","n","o","'",","," ","o","r"," ","'","e","x","i","t","'"," ","t","o"," ","c","o","n","t","i","n","u","e",".">>

TestPrompt ==
    <<"P","l","e","a","s","e"," ","r","e","s","p","o","n","d"," ","w","i","t","h"," ","'","C","o","n","n","e","c","t","i","o","n"," ","t","e","s","t"," ","s","u","c","c","e","s","s","f","u","l","!","'"," ","a","n","d"," ","n","o","t","h","i","n","g"," ","e","l","s","e",".">>

AffirmativeTokens ==
    { <<"y","e","s">>, <<"y">>, <<"p","r","o","c","e","e","d">>, <<"c","o","n","t","i","n","u","e">>, <<"a","p","p","r","o","v","e">> }

NegativeTokens ==
    { <<"n","o">>, <<"n">>, <<"c","a","n","c","e","l">>, <<"s","t","o","p">>, <<"d","e","n","y">> }

ExitTokens ==
    { <<"e","x","i","t">>, <<"q","u","i","t">>, <<"q">> }

\* the commands of the loop that only print
PrintCommands ==
    { <<"h","e","l","p">>, <<"s","t","a","t","u","s">>, <<"t","o","d","o">>, <<"f","i","l","e","s">>, <<"l","s">>, <<"c","o","n","f","i","r","m">> }

TestCommand ==
    <<"t","e","s","t">>

ClearCommand ==
    <<"c","l","e","a","r">>

confirmation_indicators ==
    << <<"s","h","o","u","l","d"," ","i"," ","p","r","o","c","e","e","d">>, <<"s","h","a","l","l"," ","i"," ","p","r","o","c","e","e","d">>, <<"d","o"," ","y","o","u"," ","w","a","n","t"," ","m","e"," ","t","o">>,
       <<"w","o","u","l","d"," ","y","o","u"," ","l","i","k","e"," ","m","e"," ","t","o">>, <<"c","a","n"," ","i"," ","p","r","o","c","e","e","d">>, <<"m","a","y"," ","i"," ","p","r","o","c","e","e","d">>,
       <<"d","o"," ","y","o","u"," ","a","p","p","r","o","v","e">>, <<"s","h","o","u","l","d"," ","i"," ","c","o","n","t","i","n","u","e">>, <<"s","h","a","l","l"," ","i"," ","c","o","n","t","i","n","u","e">>,
       <<"d","o"," ","y","o","u"," ","w","a","n","t"," ","m","e"," ","t","o"," ","c","o","n","t","i","n","u","e">>, <<"w","o","u","l","d"," ","y","o","u"," ","l","i","k","e"," ","m","e"," ","t","o"," ","c","o","n","t","i","n","u","e">> >>

\* the character U+2022, which a TLA+ string cannot hold
Bullet ==
    "U+2022"

BulletMarkers ==
    { "-", "*", Bullet }

TodoWord ==
    <<"t","o","d","o">>

TaskWord ==
    <<"t","a","s","k">>

DotSpace ==
    <<"."," ">>

\* ------------------------------------------------------------------------
\* ResponseInterpreter: _parse_llm_response
\* ------------------------------------------------------------------------

\* line.startswith(('-', '*', U+2022)) or (line and line[0].isdigit() and '. ' in line)
IsListLine(line) ==
    \/ (Len(line) > 0 /\ line[1] \in BulletMarkers)
    \/ (Len(line) > 0 /\ line[1] \in Digits /\ Contains(line, DotSpace))

\* IsTodoLine looking for 'todo' only
IsTodoLine_TodoOnly(line) ==
    /\ IsListLine(line)
    /\ Contains(Lower(line), TodoWord)

\* ... and ('todo' in line.lower() or 'task' in line.lower())
IsTodoLine(line) ==
    /\ IsListLine(line)
    /\ (Contains(Lower(line), TodoWord) \/ Contains(Lower(line), TaskWord))

\* the stripped lines of the reply that qualify, in the order of the reply
TodoItems(response) ==
    LET lines == SplitLines(response)
        stripped == [i \in 1..Len(lines) |-> Strip(lines[i])]
    IN  SelectSeq(stripped, IsTodoLine)

\* the indices of the indicators that occur in response_lower
MatchingIndicators(response_lower) ==
    { k \in 1..Len(confirmation_indicators) :
        Contains(response_lower, confirmation_indicators[k]) }

\* the snippet around the first occurrence of the indicator
ExtractQuestion(response, response_lower, indicator) ==
    LET start_idx == Find(response_lower, indicator)
        context_start == Max2(0, start_idx - SNIPPET_BEFORE)
        context_end == Min2(Len(response), start_idx + SNIPPET_AFTER)
    IN  Strip(Slice(response, context_start, context_end))

\* ParseLlmResponse looking for the indicators in the reply as it is written
ParseLlmResponse_CaseSensitive(response) ==
    LET response_lower == response
        matching == MatchingIndicators(response_lower)
    IN  [ response |-> response,
          actions |-> <<>>,
          todo_items |-> TodoItems(response),
          needs_confirmation |-> matching # {},
          confirmation_question |->
              IF matching = {}
              THEN <<>>
              ELSE ExtractQuestion(response, response_lower,
                                   confirmation_indicators[SetMin(matching)]) ]

\* ParseLlmResponse taking the indicator that occurs first in the reply
ParseLlmResponse_FirstInText(response) ==
    LET response_lower == Lower(response)
        matching == MatchingIndicators(response_lower)
    IN  [ response |-> response,
          actions |-> <<>>,
          todo_items |-> TodoItems(response),
          needs_confirmation |-> matching # {},
          confirmation_question |->
              IF matching = {}
              THEN <<>>
              ELSE ExtractQuestion(response, response_lower,
                       confirmation_indicators[
                           CHOOSE k \in matching :
                               \A j \in matching :
                                   Find(response_lower, confirmation_indicators[k])
                                       <= Find(response_lower, confirmation_indicators[j])]) ]

\* _parse_llm_response: the loop over the indicators stops at the first
\* one, in the order of the list, that occurs in the reply
ParseLlmResponse(response) ==
    LET response_lower == Lower(response)
        matching == MatchingIndicators(response_lower)
    IN  [ response |-> response,
          actions |-> <<>>,
          todo_items |-> TodoItems(response),
          needs_confirmation |-> matching # {},
          confirmation_question |->
              IF matching = {}
              THEN <<>>
              ELSE ExtractQuestion(response, response_lower,
                                   confirmation_indicators[SetMin(matching)]) ]

\* ------------------------------------------------------------------------
\* The backend, as the client sees it
\* ------------------------------------------------------------------------

\* values of the "response" field the backend may produce
Bodies ==
    { <<" ","D","o","n","e",".","\n">>,
      <<"P","l","a","n",":","\n","-"," ","T","O","D","O",":"," ","a","d","d"," ","l","o","g","g","i","n","g","\n","S","h","o","u","l","d"," ","I"," ","p","r","o","c","e","e","d","?">>,
      <<"1","."," ","T","a","s","k",":"," ","w","r","i","t","e"," ","t","e","s","t","s">>,
      <<"M","a","y"," ","I"," ","p","r","o","c","e","e","d","?">>,
      <<"E","r","r","o","r",":"," ","b","a","d"," ","i","n","p","u","t">> }

\* what one requests.post can come to: an exception of requests, a status
\* that raise_for_status rejects, a body json() rejects, a JSON object
\* without the field, a field that is not a string, or a reply
FailureKinds ==
    { "timeout", "connection", "transport", "status",
      "not_json", "not_json_legacy", "missing_field", "bad_field" }

Outcomes ==
    [ kind : FailureKinds, body : { <<>> } ] \cup [ kind : { "success" }, body : Bodies ]

\* the exception an attempt ends with
RaisedBy(kind) ==
    CASE kind = "timeout" -> "Timeout"
      [] kind = "connection" -> "ConnectionError"
      [] kind = "transport" -> "RequestException"
      [] kind = "status" -> "HTTPError"
      [] kind = "not_json" -> "JSONDecodeError"
      [] kind = "not_json_legacy" -> "ValueError"
      [] kind = "bad_field" -> "AttributeError"
      [] OTHER -> "none"

\* the classes an exception is an instance of
ClassesOf(exc) ==
    CASE exc = "Timeout" -> { "Timeout", "RequestException", "Exception" }
      [] exc = "ConnectionError" -> { "ConnectionError", "RequestException", "Exception" }
      [] exc = "RequestException" -> { "RequestException", "Exception" }
      [] exc = "HTTPError" -> { "HTTPError", "RequestException", "Exception" }
      [] exc = "JSONDecodeError" -> { "JSONDecodeError", "RequestException", "ValueError", "Exception" }
      [] exc = "ValueError" -> { "ValueError", "Exception" }
      [] exc = "AttributeError" -> { "AttributeError", "Exception" }
      [] exc = "json.JSONDecodeError" -> { "json.JSONDecodeError", "ValueError", "Exception" }
      [] exc = "UnicodeDecodeError" -> { "UnicodeDecodeError", "UnicodeError", "ValueError", "Exception" }
      [] exc = "OSError" -> { "OSError", "Exception" }
      [] exc = "PermissionError" -> { "PermissionError", "OSError", "Exception" }
      [] OTHER -> {}

\* the message of the exception, as the f-strings print it
ExcText(exc) ==
    CASE exc = "RequestException" -> <<"t","r","a","n","s","p","o","r","t"," ","f","a","i","l","u","r","e">>
      [] exc = "HTTPError" -> <<"5","0","0"," ","S","e","r","v","e","r"," ","E","r","r","o","r">>
      [] exc = "JSONDecodeError" -> <<"E","x","p","e","c","t","i","n","g"," ","v","a","l","u","e">>
      [] exc = "ValueError" -> <<"E","x","p","e","c","t","i","n","g"," ","v","a","l","u","e">>
      [] exc = "AttributeError" -> <<"n","o"," ","a","t","t","r","i","b","u","t","e"," ","'","s","t","r","i","p","'">>
      [] exc = "PermissionError" -> <<"[","E","r","r","n","o"," ","1","3","]"," ","P","e","r","m","i","s","s","i","o","n"," ","d","e","n","i","e","d">>
      [] exc = "OSError" -> <<"[","E","r","r","n","o"," ","2","8","]"," ","N","o"," ","s","p","a","c","e"," ","l","e","f","t"," ","o","n"," ","d","e","v","i","c","e">>
      [] OTHER -> <<>>

\* ExceptClauses without the final `except Exception`
ExceptClauses_NoCatchAll ==
    << "Timeout", "ConnectionError", "RequestException" >>

\* the except clauses of _call_llm, in the order they are written
ExceptClauses ==
    << "Timeout", "ConnectionError", "RequestException", "Exception" >>

\* the first except clause that matches, "none" when the exception propagates
Handler(exc) ==
    LET matching == { k \in 1..Len(ExceptClauses) : ExceptClauses[k] \in ClassesOf(exc) }
    IN  IF matching = {} THEN "none" ELSE ExceptClauses[SetMin(matching)]

RECURSIVE Pow2(_)
Pow2(n) ==
    IF n = 0 THEN 1 ELSE 2 * Pow2(n - 1)

Return(text) ==
    [ do |-> "return", text |-> text, secs |-> 0 ]

SleepThenRetry(secs) ==
    [ do |-> "sleep", text |-> <<>>, secs |-> secs ]

Propagate ==
    [ do |-> "raise", text |-> <<>>, secs |-> 0 ]

\* AttemptStep without the `attempt < MAX_RETRIES - 1` tests: every failed
\* request, the last one too, is followed by a sleep
AttemptStep_AlwaysSleeps(attempt, o) ==
    IF o.kind = "success" THEN Return(Strip(o.body))
    ELSE IF o.kind = "missing_field" THEN Return(ErrUnexpectedFormat)
    ELSE LET exc == RaisedBy(o.kind)
             clause == Handler(exc)
         IN  CASE clause = "Timeout" -> SleepThenRetry(TIMEOUT_DELAY)
               [] clause = "ConnectionError" -> SleepThenRetry(Pow2(attempt))
               [] clause = "RequestException" -> SleepThenRetry(Pow2(attempt))
               [] clause = "Exception" -> Return(ErrUnexpected \o ExcText(exc))
               [] OTHER -> Propagate

\* AttemptStep with the Timeout clause backing off like the other clauses
AttemptStep_TimeoutBackoff(attempt, o) ==
    IF o.kind = "success" THEN Return(Strip(o.body))
    ELSE IF o.kind = "missing_field" THEN Return(ErrUnexpectedFormat)
    ELSE LET exc == RaisedBy(o.kind)
             clause == Handler(exc)
         IN  CASE clause = "Timeout" ->
                    IF attempt < MAX_RETRIES - 1
                    THEN SleepThenRetry(Pow2(attempt))
                    ELSE Return(ErrTimeout)
               [] clause = "ConnectionError" ->
                    IF attempt < MAX_RETRIES - 1
                    THEN SleepThenRetry(Pow2(attempt))
                    ELSE Return(ErrConnect)
               [] clause = "RequestException" ->
                    IF attempt < MAX_RETRIES - 1
                    THEN SleepThenRetry(Pow2(attempt))
                    ELSE Return(ErrCommunicate \o ExcText(exc))
               [] clause = "Exception" ->
                    Return(ErrUnexpected \o ExcText(exc))
               [] OTHER -> Propagate

\* AttemptStep with a delay of one second after every failed connection
\* or transport
AttemptStep_FixedBackoff(attempt, o) ==
    IF o.kind = "success" THEN Return(Strip(o.body))
    ELSE IF o.kind = "missing_field" THEN Return(ErrUnexpectedFormat)
    ELSE LET exc == RaisedBy(o.kind)
             clause == Handler(exc)
         IN  CASE clause = "Timeout" ->
                    IF attempt < MAX_RETRIES - 1
                    THEN SleepThenRetry(TIMEOUT_DELAY)
                    ELSE Return(ErrTimeout)
               [] clause = "ConnectionError" ->
                    IF attempt < MAX_RETRIES - 1
                    THEN SleepThenRetry(1)
                    ELSE Return(ErrConnect)
               [] clause = "RequestException" ->
                    IF attempt < MAX_RETRIES - 1
                    THEN SleepThenRetry(1)
                    ELSE Return(ErrCommunicate \o ExcText(exc))
               [] clause = "Exception" ->
                    Return(ErrUnexpected \o ExcText(exc))
               [] OTHER -> Propagate

\* AttemptStep retrying a reply that lacks the field
AttemptStep_MissingFieldRetries(attempt, o) ==
    IF o.kind = "success" THEN Return(Strip(o.body))
    ELSE IF o.kind = "missing_field"
    THEN IF attempt < MAX_RETRIES - 1
         THEN SleepThenRetry(Pow2(attempt))
         ELSE Return(ErrUnexpectedFormat)
    ELSE LET exc == RaisedBy(o.kind)
             clause == Handler(exc)
         IN  CASE clause = "Timeout" ->
                    IF attempt < MAX_RETRIES - 1
                    THEN SleepThenRetry(TIMEOUT_DELAY)
                    ELSE Return(ErrTimeout)
               [] clause = "ConnectionError" ->
                    IF attempt < MAX_RETRIES - 1
                    THEN SleepThenRetry(Pow2(attempt))
                    ELSE Return(ErrConnect)
               [] clause = "RequestException" ->
                    IF attempt < MAX_RETRIES - 1
                    THEN SleepThenRetry(Pow2(attempt))
                    ELSE Return(ErrCommunicate \o ExcText(exc))
               [] clause = "Exception" ->
                    Return(ErrUnexpected \o ExcText(exc))
               [] OTHER -> Propagate

\* AttemptStep returning the field as the backend sent it
AttemptStep_NoStrip(attempt, o) ==
    IF o.kind = "success" THEN Return(o.body)
    ELSE IF o.kind = "missing_field" THEN Return(ErrUnexpectedFormat)
    ELSE LET exc == RaisedBy(o.kind)
             clause == Handler(exc)
         IN  CASE clause = "Timeout" ->
                    IF attempt < MAX_RETRIES - 1
                    THEN SleepThenRetry(TIMEOUT_DELAY)
                    ELSE Return(ErrTimeout)
               [] clause = "ConnectionError" ->
                    IF attempt < MAX_RETRIES - 1
                    THEN SleepThenRetry(Pow2(attempt))
                    ELSE Return(ErrConnect)
               [] clause = "RequestException" ->
                    IF attempt < MAX_RETRIES - 1
                    THEN SleepThenRetry(Pow2(attempt))
                    ELSE Return(ErrCommunicate \o ExcText(exc))
               [] clause = "Exception" ->
                    Return(ErrUnexpected \o ExcText(exc))
               [] OTHER -> Propagate

\* AttemptStep whose last attempt reports every failure of the transport with
\* the generic text
AttemptStep_GenericOnExhaustion(attempt, o) ==
    IF o.kind = "success" THEN Return(Strip(o.body))
    ELSE IF o.kind = "missing_field" THEN Return(ErrUnexpectedFormat)
    ELSE LET exc == RaisedBy(o.kind)
             clause == Handler(exc)
         IN  CASE clause = "Timeout" ->
                    IF attempt < MAX_RETRIES - 1
                    THEN SleepThenRetry(TIMEOUT_DELAY)
                    ELSE Return(ErrCommunicate \o ExcText(exc))
               [] clause = "ConnectionError" ->
                    IF attempt < MAX_RETRIES - 1
                    THEN SleepThenRetry(Pow2(attempt))
                    ELSE Return(ErrCommunicate \o ExcText(exc))
               [] clause = "RequestException" ->
                    IF attempt < MAX_RETRIES - 1
                    THEN SleepThenRetry(Pow2(attempt))
                    ELSE Return(ErrCommunicate \o ExcText(exc))
               [] clause = "Exception" ->
                    Return(ErrUnexpected \o ExcText(exc))
               [] OTHER -> Propagate

\* one iteration of the retry loop of _call_llm: what the body of the loop
\* does on attempt number `attempt` (0-based) when the request ends with o
AttemptStep(attempt, o) ==
    IF o.kind = "success" THEN Return(Strip(o.body))
    ELSE IF o.kind = "missing_field" THEN Return(ErrUnexpectedFormat)
    ELSE LET exc == RaisedBy(o.kind)
             clause == Handler(exc)
         IN  CASE clause = "Timeout" ->
                    IF attempt < MAX_RETRIES - 1
                    THEN SleepThenRetry(TIMEOUT_DELAY)
                    ELSE Return(ErrTimeout)
               [] clause = "ConnectionError" ->
                    IF attempt < MAX_RETRIES - 1
                    THEN SleepThenRetry(Pow2(attempt))
                    ELSE Return(ErrConnect)
               [] clause = "RequestException" ->
                    IF attempt < MAX_RETRIES - 1
                    THEN SleepThenRetry(Pow2(attempt))
                    ELSE Return(ErrCommunicate \o ExcText(exc))
               [] clause = "Exception" ->
                    Return(ErrUnexpected \o ExcText(exc))
               [] OTHER -> Propagate

\* _call_llm from iteration `attempt` on, the requests ending as script says:
\* the value returned (or the exception raised), the iteration it returned
\* in, the sleeps made and the outcome of the last request
RECURSIVE RunCall(_, _, _)
RunCall(attempt, sleeps, script) ==
    IF attempt >= MAX_RETRIES
    THEN [ kind |-> "value", text |-> ErrNoResponse, attempt |-> attempt,
           sleeps |-> sleeps, outcome |-> script[MAX_RETRIES].kind ]
    ELSE LET step == AttemptStep(attempt, script[attempt + 1])
         IN  CASE step.do = "return" ->
                    [ kind |-> "value", text |-> step.text, attempt |-> attempt,
                      sleeps |-> sleeps, outcome |-> script[attempt + 1].kind ]
               [] step.do = "sleep" ->
                    RunCall(attempt + 1, Append(sleeps, step.secs), script)
               [] OTHER ->
                    [ kind |-> "raise", text |-> <<>>, attempt |-> attempt,
                      sleeps |-> sleeps, outcome |-> script[attempt + 1].kind ]

\* _call_llm as a function of how its requests end
CallLlm(script) ==
    RunCall(0, <<>>, script)

\* what _call_llm returns for the replies of the backend
SuccessTexts ==
    { Strip(b) : b \in Bodies }

\* _parse_llm_response on each of them, computed once
ParsedReplies ==
    { << text, ParseLlmResponse(text) >> : text \in SuccessTexts }

\* _parse_llm_response as process_user_input calls it
Interpret(llm_response) ==
    IF llm_response \in SuccessTexts
    THEN (CHOOSE entry \in ParsedReplies : entry[1] = llm_response)[2]
    ELSE ParseLlmResponse(llm_response)

\* ------------------------------------------------------------------------
\* State
\* ------------------------------------------------------------------------

VARIABLES
    env,        \* outside the program: the reading of the wall clock, what kind of
                \* file project_context.json is, and how the directory takes writes
    surface,    \* "cli": run_interactive_loop drives the session; "gui": MainWindow does
    loop,       \* "starting" before the session object is there, "running" until the
                \* interactive loop breaks, then "exited"; "crashed", "killed"
    pending,    \* the live PendingConfirmation records of the session
    context,    \* ULCAgent.context
    file,       \* the context json.load reads from project_context.json
    threads,    \* per thread: where it is in the operation it runs
    last,       \* the operation that completed last: what it was given, what it
                \* returned, the calls of _call_llm it made, whether it raised,
                \* whether a confirmation was pending when it took effect, how
                \* the last request of its call ended (for a turn whose call
                \* is followed request by request: how each of them ended),
                \* and whether it found work items the todo list had;
                \* of a file operation: the question it asked, the answer, and
                \* what it returned
    files,      \* the files of the project directory the file operations are
                \* called on: what each holds
    peer        \* a second session opened on the project directory: whether
                \* it runs and the context it holds

vars ==
    << env, surface, loop, pending, context, file, threads, last, files, peer >>

\* the thread of the loop, or the event thread of the window
Main == 0

\* MainWindow.llm_worker and MainWindow.test_worker
LlmWorker == 1

TestWorker == 2

Workers == { LlmWorker, TestWorker }

ThreadIds == { Main } \cup Workers

\* ULCAgent.confirmation_mode, pending_action and pending_question
confirmation_mode == pending # {}

pending_action ==
    IF pending = {} THEN "None" ELSE (CHOOSE p \in pending : TRUE).action

pending_question ==
    IF pending = {} THEN <<>> ELSE (CHOOSE p \in pending : TRUE).question

NoResult == [ kind |-> "none", text |-> <<>> ]

IdleThread ==
    [ pc |-> "idle", op |-> "none", signal |-> "none", input |-> <<>>,
      attempt |-> 0, sleeps |-> <<>>, delay |-> 0, outcome |-> "none", kinds |-> <<>>,
      result |-> NoResult, reply |-> <<>>, calls |-> 0, prompt |-> <<>> ]

NoOperation ==
    [ op |-> "none", input |-> <<>>, reply |-> <<>>, calls |-> 0, raised |-> FALSE,
      was_pending |-> FALSE, outcome |-> "none", kinds |-> <<>>, overlap |-> FALSE,
      report |-> <<>> ]

\* ------------------------------------------------------------------------
\* ContextStore: the file and the clock
\* ------------------------------------------------------------------------

\* datetime.now().isoformat(): the reading of the wall clock (a timestamp is
\* kept as the reading it was made from; the code never parses one back)
Now ==
    env.clock

\* self.context before _load_or_create_context has returned
NoContext ==
    [ created_at |-> 0,
      last_updated |-> 0,
      conversation_history |-> <<>>,
      project_goal |-> <<>>,
      todo_list |-> <<>>,
      current_status |-> "none" ]

\* the context _load_or_create_context creates when it has loaded none
NewContext ==
    [ created_at |-> Now,
      last_updated |-> Now,
      conversation_history |-> <<>>,
      project_goal |-> <<>>,
      todo_list |-> <<>>,
      current_status |-> "awaiting_user_input" ]

\* self.context.get(key, default)
Get(ctx, key, default) ==
    IF key \in DOMAIN ctx THEN ctx[key] ELSE default

\* self.context[key] = value: the key is added when the dictionary has none
Put(ctx, key, value) ==
    IF key \in DOMAIN ctx
    THEN [ctx EXCEPT ![key] = value]
    ELSE [k \in DOMAIN ctx \cup { key } |-> IF k = key THEN value ELSE ctx[k]]

\* _save_context, line 71: the context in memory is stamped before the write
Stamp(ctx) ==
    Put(ctx, "last_updated", Now)

\* the values of a JSON document: a string, an array, or an object whose
\* members are kept in the order they were written
JsonString(s) ==
    [ type |-> "string", value |-> s ]

JsonArray(items) ==
    [ type |-> "array", value |-> items ]

JsonObject(members) ==
    [ type |-> "object", value |-> members ]

\* obj[key] of the dictionary json.load builds: the last member of that name
Member(obj, key) ==
    obj.value[SetMax({ i \in 1..Len(obj.value) : obj.value[i][1] = key })][2]

\* json.dump of an entry of the history
DumpEntry(entry) ==
    JsonObject(<< << "timestamp", JsonString(entry.timestamp) >>,
                  << "user_input", JsonString(entry.user_input) >>,
                  << "agent_response", JsonString(entry.agent_response) >>,
                  << "action_taken", JsonString(entry.action_taken) >> >>)

\* the keys of a context, in the order _load_or_create_context writes them
ContextKeys ==
    << "created_at", "last_updated", "conversation_history", "project_goal",
       "todo_list", "current_status" >>

\* json.dump of the value a context holds under key
DumpValue(ctx, key) ==
    CASE key = "conversation_history" ->
             JsonArray([i \in 1..Len(ctx[key]) |-> DumpEntry(ctx[key][i])])
      [] key = "todo_list" ->
             JsonArray([i \in 1..Len(ctx[key]) |-> JsonString(ctx[key][i])])
      [] OTHER -> JsonString(ctx[key])

\* json.dump(context, f, indent=2, ensure_ascii=False): the document written,
\* with a member for each key the dictionary has
DumpContext(ctx) ==
    LET Present(key) == key \in DOMAIN ctx
        keys == SelectSeq(ContextKeys, Present)
    IN  JsonObject([i \in 1..Len(keys) |-> << keys[i], DumpValue(ctx, keys[i]) >>])

\* json.load on the object of an entry
LoadEntry(obj) ==
    [ timestamp |-> Member(obj, "timestamp").value,
      user_input |-> Member(obj, "user_input").value,
      agent_response |-> Member(obj, "agent_response").value,
      action_taken |-> Member(obj, "action_taken").value ]

\* json.load of the member of the document named key
LoadValue(obj, key) ==
    CASE key = "conversation_history" ->
             [i \in 1..Len(Member(obj, key).value) |-> LoadEntry(Member(obj, key).value[i])]
      [] key = "todo_list" ->
             [i \in 1..Len(Member(obj, key).value) |-> Member(obj, key).value[i].value]
      [] OTHER -> Member(obj, key).value

\* json.load(f): the dictionary read from the document, with the keys the
\* document has
LoadContext(obj) ==
    LET keys == { obj.value[i][1] : i \in 1..Len(obj.value) }
    IN  IF keys = SeqToSet(ContextKeys)
        THEN [ created_at |-> LoadValue(obj, "created_at"),
               last_updated |-> LoadValue(obj, "last_updated"),
               conversation_history |-> LoadValue(obj, "conversation_history"),
               project_goal |-> LoadValue(obj, "project_goal"),
               todo_list |-> LoadValue(obj, "todo_list"),
               current_status |-> LoadValue(obj, "current_status") ]
        ELSE [key \in keys |-> LoadValue(obj, key)]

\* Written when the file keeps what it held
Written_Never(ctx, stored) ==
    stored

\* Written that merges the history of the file into what it writes
Written_Merges(ctx, stored) ==
    IF env.disk = "ok"
    THEN LET theirs == Get(stored, "conversation_history", <<>>)
             Mine(entry) == \A i \in 1..Len(theirs) : theirs[i] # entry
         IN  LoadContext(DumpContext(
                 [ctx EXCEPT !.conversation_history = theirs \o SelectSeq(@, Mine)]))
    ELSE stored

\* _save_context, lines 73-77: the context json.load reads from the file
\* after the save of ctx; open() or the write raising IOError is printed
\* and nothing more
Written(ctx, stored) ==
    IF env.disk = "ok" THEN LoadContext(DumpContext(ctx)) ELSE stored

\* what the file is after the save: JSON when the write went through, as it
\* was when open() was refused, cut short when the write broke off
WrittenFormat ==
    CASE env.disk = "ok" -> "json"
      [] env.disk = "refused" -> env.format
      [] OTHER -> "not_json"

\* the exception open() or json.dump raises in _save_context when the
\* directory does not take the write
SaveRaises(disk) ==
    CASE disk = "refused" -> "PermissionError"
      [] disk = "torn" -> "OSError"
      [] OTHER -> "none"

\* SaveExceptClauses of a _save_context without its except clause
SaveExceptClauses_None ==
    {}

\* except IOError (line 76); IOError is OSError
SaveExceptClauses ==
    { "OSError" }

\* the exception that leaves _save_context, "none" when there is none
SaveEscapes ==
    LET exc == SaveRaises(env.disk)
    IN  IF ClassesOf(exc) \cap SaveExceptClauses # {} THEN "none" ELSE exc

\* what _save_context prints: print(f"Error saving context: {e}"), line 77
SaveReport ==
    LET exc == SaveRaises(env.disk)
    IN  IF ClassesOf(exc) \cap SaveExceptClauses # {}
        THEN <<"E","r","r","o","r"," ","s","a","v","i","n","g"," ","c","o","n","t","e","x","t",":"," ">> \o ExcText(exc)
        ELSE <<>>

\* the exception open() and json.load() raise on a file that is there
LoadRaises(format) ==
    CASE format = "not_json" -> "json.JSONDecodeError"
      [] format = "not_utf8" -> "UnicodeDecodeError"
      [] OTHER -> "none"

\* except (json.JSONDecodeError, IOError)
LoadExceptClauses ==
    { "json.JSONDecodeError", "OSError" }

\* LoadOrCreateContext that creates a context whatever the file holds
LoadOrCreateContext_AlwaysNew(stored, format) ==
    [ raised |-> "none",
      context |-> Stamp(NewContext),
      file |-> Written(Stamp(NewContext), stored),
      format |-> WrittenFormat ]

\* _load_or_create_context: what it raises, the context it returns and what
\* it leaves in the file
LoadOrCreateContext(stored, format) ==
    LET exc == LoadRaises(format)
    IN  IF format = "json"
        THEN [ raised |-> "none", context |-> stored, file |-> stored, format |-> format ]
        ELSE IF format # "absent" /\ ClassesOf(exc) \cap LoadExceptClauses = {}
        THEN [ raised |-> exc, context |-> NoContext, file |-> stored, format |-> format ]
        ELSE [ raised |-> "none",
               context |-> Stamp(NewContext),
               file |-> Written(Stamp(NewContext), stored),
               format |-> WrittenFormat ]

\* what files holds for a path when full_path.exists() is False
Absent ==
    << "absent" >>

\* the file paths the file operations are called with
Paths ==
    { <<"a",".","p","y">>, <<"b",".","p","y">> }

\* what a project file holds and what a file operation is given to write
Contents ==
    { <<"o","l","d">>, <<"n","e","w">> }

\* a project directory without the files of Paths
NoFiles ==
    [path \in Paths |-> Absent]

\* no second session is open on the project directory
NoPeer ==
    [ loop |-> "none", context |-> NoContext ]

\* the session object of a program started in a directory without a context
\* file, which it could write
Init ==
    /\ env = [ clock |-> 0, format |-> "json", disk |-> "ok" ]
    /\ surface \in { "cli", "gui" }
    /\ loop = "running"
    /\ pending = {}
    /\ context = NewContext
    /\ file = NewContext
    /\ threads = [t \in ThreadIds |-> IdleThread]
    /\ last = NoOperation
    /\ files = NoFiles
    /\ peer = NoPeer

\* ------------------------------------------------------------------------
\* ContextStore updates
\* ------------------------------------------------------------------------

\* UpdateTodoList appending the new items to the list
UpdateTodoList_Appends(ctx, new_items) ==
    { Stamp([ctx EXCEPT !.todo_list = @ \o new_items]) }

\* _update_todo_list: the contexts it can leave (list(set) fixes no order)
UpdateTodoList(ctx, new_items) ==
    LET added == { Strip(new_items[i]) : i \in { j \in 1..Len(new_items) : Strip(new_items[j]) # <<>> } }
        current_todos == SeqToSet(Get(ctx, "todo_list", <<>>)) \cup added
    IN  { Stamp(Put(ctx, "todo_list", q)) : q \in ListsOf(current_todos) }

\* self.context["conversation_history"].append(entry), line 245: the
\* exception it raises on a dictionary without that key
UpdateRaises(ctx) ==
    IF "conversation_history" \in DOMAIN ctx THEN "none" ELSE "KeyError"

\* UpdateContext putting the new entry before the others
UpdateContext_Prepends(ctx, user_input, agent_response) ==
    Stamp([ctx EXCEPT !.conversation_history =
                          << [ timestamp |-> Now,
                               user_input |-> user_input,
                               agent_response |-> agent_response,
                               action_taken |-> <<>> ] >> \o @,
                      !.current_status = "awaiting_user_input"])

\* _update_context, with the stamp of the _save_context it ends with
UpdateContext(ctx, user_input, agent_response) ==
    Stamp([ctx EXCEPT !.conversation_history =
                          Append(@, [ timestamp |-> Now,
                                      user_input |-> user_input,
                                      agent_response |-> agent_response,
                                      action_taken |-> <<>> ]),
                      !.current_status = "awaiting_user_input"])

\* ------------------------------------------------------------------------
\* ConfirmationGate and SessionOrchestrator, as functions of the state
\* ------------------------------------------------------------------------

\* EnterGate keeping the confirmation that is already pending
EnterGate_Adds(pend, question) ==
    pend \cup { [ action |-> "llm_confirmation", question |-> question ] }

\* the assignments of process_user_input that enter the gate
EnterGate(pend, question) ==
    { [ action |-> "llm_confirmation", question |-> question ] }

\* GateReply returning the reply of the backend
GateReply_ReplyText(parsed_response) ==
    parsed_response

\* what process_user_input returns when it has entered the gate
GateReply(parsed_response) ==
    AwaitingMarker

\* ProcessReply handing the error value of the call to its caller
ProcessReply_ErrorPassedOn(ctx, stored, pend, user_input, llm_response) ==
    IF StartsWith(llm_response, ErrorMarker)
    THEN { [ context |-> ctx, file |-> stored, format |-> env.format, pending |-> pend, reply |-> llm_response,
             todo_items |-> <<>>, raised |-> "none", report |-> <<>> ] }
    ELSE LET parsed == Interpret(llm_response)
             with_todos == IF parsed.todo_items # <<>>
                           THEN UpdateTodoList(ctx, parsed.todo_items)
                           ELSE { ctx }
         IN  { IF parsed.needs_confirmation
               THEN [ context |-> c,
                      file |-> IF parsed.todo_items # <<>> THEN Written(c, stored) ELSE stored,
                      format |-> IF parsed.todo_items # <<>> THEN WrittenFormat ELSE env.format,
                      pending |-> EnterGate(pend, parsed.confirmation_question),
                      reply |-> GateReply(parsed.response),
                      todo_items |-> parsed.todo_items,
                      raised |-> IF parsed.todo_items # <<>> THEN SaveEscapes ELSE "none",
                      report |-> IF parsed.todo_items # <<>> THEN SaveReport ELSE <<>> ]
               ELSE [ context |-> UpdateContext(c, user_input, parsed.response),
                      file |-> Written(UpdateContext(c, user_input, parsed.response), stored),
                      format |-> WrittenFormat,
                      pending |-> pend,
                      reply |-> parsed.response,
                      todo_items |-> parsed.todo_items,
                      raised |-> SaveEscapes,
                      report |-> SaveReport ]
               : c \in with_todos }

\* ProcessReply recording the turn whose call failed
ProcessReply_RecordsFailure(ctx, stored, pend, user_input, llm_response) ==
    IF StartsWith(llm_response, ErrorMarker)
    THEN { [ context |-> UpdateContext(ctx, user_input, Apology),
             file |-> Written(UpdateContext(ctx, user_input, Apology), stored),
             format |-> WrittenFormat,
             pending |-> pend, reply |-> Apology, todo_items |-> <<>>,
             raised |-> SaveEscapes, report |-> SaveReport ] }
    ELSE LET parsed == Interpret(llm_response)
             with_todos == IF parsed.todo_items # <<>>
                           THEN UpdateTodoList(ctx, parsed.todo_items)
                           ELSE { ctx }
         IN  { IF parsed.needs_confirmation
               THEN [ context |-> c,
                      file |-> IF parsed.todo_items # <<>> THEN Written(c, stored) ELSE stored,
                      format |-> IF parsed.todo_items # <<>> THEN WrittenFormat ELSE env.format,
                      pending |-> EnterGate(pend, parsed.confirmation_question),
                      reply |-> GateReply(parsed.response),
                      todo_items |-> parsed.todo_items,
                      raised |-> IF parsed.todo_items # <<>> THEN SaveEscapes ELSE "none",
                      report |-> IF parsed.todo_items # <<>> THEN SaveReport ELSE <<>> ]
               ELSE [ context |-> UpdateContext(c, user_input, parsed.response),
                      file |-> Written(UpdateContext(c, user_input, parsed.response), stored),
                      format |-> WrittenFormat,
                      pending |-> pend,
                      reply |-> parsed.response,
                      todo_items |-> parsed.todo_items,
                      raised |-> SaveEscapes,
                      report |-> SaveReport ]
               : c \in with_todos }

\* ProcessReply that checks for the confirmation request first and leaves
\* the work items of a reply that asks for approval alone
ProcessReply_GateFirst(ctx, stored, pend, user_input, llm_response) ==
    IF StartsWith(llm_response, ErrorMarker)
    THEN { [ context |-> ctx, file |-> stored, format |-> env.format, pending |-> pend, reply |-> Apology,
             todo_items |-> <<>>, raised |-> "none", report |-> <<>> ] }
    ELSE LET parsed == Interpret(llm_response)
             with_todos == IF parsed.todo_items # <<>>
                           THEN UpdateTodoList(ctx, parsed.todo_items)
                           ELSE { ctx }
         IN  IF parsed.needs_confirmation
             THEN { [ context |-> ctx,
                      file |-> stored,
                      format |-> env.format,
                      pending |-> EnterGate(pend, parsed.confirmation_question),
                      reply |-> GateReply(parsed.response),
                      todo_items |-> <<>>,
                      raised |-> "none",
                      report |-> <<>> ] }
             ELSE { [ context |-> UpdateContext(c, user_input, parsed.response),
                      file |-> Written(UpdateContext(c, user_input, parsed.response), stored),
                      format |-> WrittenFormat,
                      pending |-> pend,
                      reply |-> parsed.response,
                      todo_items |-> parsed.todo_items,
                      raised |-> SaveEscapes,
                      report |-> SaveReport ]
                    : c \in with_todos }

\* process_user_input after _call_llm has returned llm_response: the
\* outcomes it can have, each with the context, the stored file and what
\* kind of file it is, the gate, the value returned and the work items the
\* interpreter found (the save of _update_todo_list is followed by the save
\* of _update_context, which writes over it; a context without a history
\* list makes _update_context raise when the work items are already saved)
ProcessReply(ctx, stored, pend, user_input, llm_response) ==
    IF StartsWith(llm_response, ErrorMarker)
    THEN { [ context |-> ctx, file |-> stored, format |-> env.format, pending |-> pend, reply |-> Apology,
             todo_items |-> <<>>, raised |-> "none", report |-> <<>> ] }
    ELSE LET parsed == Interpret(llm_response)
             with_todos == IF parsed.todo_items # <<>>
                           THEN UpdateTodoList(ctx, parsed.todo_items)
                           ELSE { ctx }
         IN  { IF parsed.needs_confirmation
               THEN [ context |-> c,
                      file |-> IF parsed.todo_items # <<>> THEN Written(c, stored) ELSE stored,
                      format |-> IF parsed.todo_items # <<>> THEN WrittenFormat ELSE env.format,
                      pending |-> EnterGate(pend, parsed.confirmation_question),
                      reply |-> GateReply(parsed.response),
                      todo_items |-> parsed.todo_items,
                      raised |-> IF parsed.todo_items # <<>> THEN SaveEscapes ELSE "none",
                      report |-> IF parsed.todo_items # <<>> THEN SaveReport ELSE <<>> ]
               ELSE IF UpdateRaises(c) # "none"
               THEN [ context |-> c,
                      file |-> IF parsed.todo_items # <<>> THEN Written(c, stored) ELSE stored,
                      format |-> IF parsed.todo_items # <<>> THEN WrittenFormat ELSE env.format,
                      pending |-> pend,
                      reply |-> <<>>,
                      todo_items |-> parsed.todo_items,
                      raised |-> UpdateRaises(c),
                      report |-> IF parsed.todo_items # <<>> THEN SaveReport ELSE <<>> ]
               ELSE [ context |-> UpdateContext(c, user_input, parsed.response),
                      file |-> Written(UpdateContext(c, user_input, parsed.response), stored),
                      format |-> WrittenFormat,
                      pending |-> pend,
                      reply |-> parsed.response,
                      todo_items |-> parsed.todo_items,
                      raised |-> SaveEscapes,
                      report |-> SaveReport ]
               : c \in with_todos }

\* ConfirmationResponse with an affirmative branch that calls the backend
\* before it would clear the pending state, and so leaves it set
ConfirmationResponse_KeepsPending(pend, user_input) ==
    IF pend = {}
    THEN [ pending |-> pend, call |-> FALSE, reply |-> NoPendingNotice ]
    ELSE LET user_input_lower == Strip(Lower(user_input))
         IN  IF user_input_lower \in AffirmativeTokens
             THEN [ pending |-> pend, call |-> TRUE, reply |-> <<>> ]
             ELSE IF user_input_lower \in NegativeTokens
             THEN [ pending |-> {}, call |-> FALSE, reply |-> CancelNotice ]
             ELSE IF user_input_lower \in ExitTokens
             THEN [ pending |-> {}, call |-> FALSE, reply |-> ExitNotice ]
             ELSE [ pending |-> pend, call |-> FALSE, reply |-> Clarification(user_input) ]

\* ConfirmationResponse with a negative branch that reports to the backend
ConfirmationResponse_NegativeCalls(pend, user_input) ==
    IF pend = {}
    THEN [ pending |-> pend, call |-> FALSE, reply |-> NoPendingNotice ]
    ELSE LET user_input_lower == Strip(Lower(user_input))
         IN  IF user_input_lower \in AffirmativeTokens
             THEN [ pending |-> {}, call |-> TRUE, reply |-> <<>> ]
             ELSE IF user_input_lower \in NegativeTokens
             THEN [ pending |-> {}, call |-> TRUE, reply |-> <<>> ]
             ELSE IF user_input_lower \in ExitTokens
             THEN [ pending |-> {}, call |-> FALSE, reply |-> ExitNotice ]
             ELSE [ pending |-> pend, call |-> FALSE, reply |-> Clarification(user_input) ]

\* ConfirmationResponse taking what it does not understand for a refusal
ConfirmationResponse_UnclearCancels(pend, user_input) ==
    IF pend = {}
    THEN [ pending |-> pend, call |-> FALSE, reply |-> NoPendingNotice ]
    ELSE LET user_input_lower == Strip(Lower(user_input))
         IN  IF user_input_lower \in AffirmativeTokens
             THEN [ pending |-> {}, call |-> TRUE, reply |-> <<>> ]
             ELSE IF user_input_lower \in NegativeTokens
             THEN [ pending |-> {}, call |-> FALSE, reply |-> CancelNotice ]
             ELSE IF user_input_lower \in ExitTokens
             THEN [ pending |-> {}, call |-> FALSE, reply |-> ExitNotice ]
             ELSE [ pending |-> {}, call |-> FALSE, reply |-> Clarification(user_input) ]

\* _handle_confirmation_response up to the follow-up call: the gate it
\* leaves, whether it calls the backend, and what it returns when it does not
ConfirmationResponse(pend, user_input) ==
    IF pend = {}
    THEN [ pending |-> pend, call |-> FALSE, reply |-> NoPendingNotice ]
    ELSE LET user_input_lower == Strip(Lower(user_input))
         IN  IF user_input_lower \in AffirmativeTokens
             THEN [ pending |-> {}, call |-> TRUE, reply |-> <<>> ]
             ELSE IF user_input_lower \in NegativeTokens
             THEN [ pending |-> {}, call |-> FALSE, reply |-> CancelNotice ]
             ELSE IF user_input_lower \in ExitTokens
             THEN [ pending |-> {}, call |-> FALSE, reply |-> ExitNotice ]
             ELSE [ pending |-> pend, call |-> FALSE, reply |-> Clarification(user_input) ]

\* the branch run_interactive_loop takes for a line read by input()
LoopRoute(line, in_confirmation) ==
    LET user_input == Strip(line)
    IN  IF user_input = <<>> THEN "empty"
        ELSE IF Lower(user_input) \in ExitTokens THEN "exit"
        ELSE IF Lower(user_input) \in PrintCommands THEN "print"
        ELSE IF Lower(user_input) = TestCommand THEN "test"
        ELSE IF Lower(user_input) = ClearCommand THEN "clear"
        ELSE IF in_confirmation THEN "confirmation"
        ELSE "turn"

\* the session operation MainWindow.handle_user_message runs for a message
GuiRoute(message, in_confirmation) ==
    "turn"

\* ------------------------------------------------------------------------
\* What the user can type
\* ------------------------------------------------------------------------

UserLines ==
    { <<>>, <<"a","d","d"," ","t","e","s","t","s">>, <<" ","Y","e","s">>, <<"n","o">>, <<"m","a","y","b","e">>,
      <<"e","x","i","t">>, <<"c","l","e","a","r">>, <<"t","e","s","t">>, <<"h","e","l","p">> }

\* what the user types into the chat of the window
GuiLines ==
    { <<>>, <<"a","d","d"," ","t","e","s","t","s">>, <<" ","Y","e","s">> }

DialogYes ==
    <<"y","e","s">>

DialogNo ==
    <<"n","o">>

\* ------------------------------------------------------------------------
\* BackendClient: _call_llm, one step per attempt and per sleep
\* ------------------------------------------------------------------------

\* ------------------------------------------------------------------------
\* PromptAssembler: the history section of the prompt
\* ------------------------------------------------------------------------

\* history[-10:]
HISTORY_WINDOW ==
    10

DigitChars ==
    << "0", "1", "2", "3", "4", "5", "6", "7", "8", "9" >>

\* str(n) of a natural number, as an f-string prints it
RECURSIVE NatToText(_)
NatToText(n) ==
    IF n < 10
    THEN << DigitChars[n + 1] >>
    ELSE NatToText(n \div 10) \o << DigitChars[(n % 10) + 1] >>

\* the isoformat() text of the reading t: t seconds into one minute
IsoFormat(t) ==
    <<"2","0","2","4","-","0","1","-","0","1","T","0","0",":","0","0",":">> \o (IF t < 10 THEN << "0" >> ELSE <<>>) \o NatToText(t)

\* the four lines _format_conversation_history appends for an entry
EntryLines(i, entry) ==
    << <<"-","-","-"," ","E","n","t","r","y"," ">> \o NatToText(i) \o <<" ","(">> \o IsoFormat(entry.timestamp) \o <<")"," ","-","-","-">>,
       <<"U","s","e","r",":"," ">> \o entry.user_input,
       <<"A","g","e","n","t",":"," ">> \o entry.agent_response,
       <<>> >>

RECURSIVE FormattedLines(_, _)
FormattedLines(entries, i) ==
    IF i > Len(entries)
    THEN <<>>
    ELSE EntryLines(i, entries[i]) \o FormattedLines(entries, i + 1)

\* FormatConversationHistory over the whole history
FormatConversationHistory_All(history) ==
    IF history = <<>>
    THEN <<"N","o"," ","p","r","e","v","i","o","u","s"," ","c","o","n","v","e","r","s","a","t","i","o","n",".">>
    ELSE JoinLines(FormattedLines(history, 1))

\* _format_conversation_history
FormatConversationHistory(history) ==
    IF history = <<>>
    THEN <<"N","o"," ","p","r","e","v","i","o","u","s"," ","c","o","n","v","e","r","s","a","t","i","o","n",".">>
    ELSE JoinLines(FormattedLines(
             SubSeq(history, Max2(1, Len(history) - HISTORY_WINDOW + 1), Len(history)), 1))

\* thread t enters _call_llm on behalf of operation op; for a turn, with the
\* history section of the prompt _build_system_prompt has assembled, which
\* the thread holds while a request with it can still be sent
StartCall(t, op, signal, input) ==
    threads' = [threads EXCEPT ![t] =
                   [IdleThread EXCEPT !.pc = "attempt", !.op = op, !.signal = signal,
                                      !.input = input, !.calls = 1,
                                      !.prompt = IF op = "turn"
                                                 THEN FormatConversationHistory(
                                                          Get(context, "conversation_history", <<>>))
                                                 ELSE <<>>]]

\* one requests.post of the retry loop, ending with outcome o
Attempt(t, o) ==
    /\ threads[t].pc = "attempt"
    /\ LET th == threads[t]
           step == AttemptStep(th.attempt, o)
       IN  threads' = [threads EXCEPT ![t] =
               CASE step.do = "return" ->
                      [th EXCEPT !.pc = "ret", !.outcome = o.kind, !.prompt = <<>>,
                                 !.kinds = Append(@, o.kind),
                                 !.result = [ kind |-> "value", text |-> step.text ]]
                 [] step.do = "sleep" ->
                      [th EXCEPT !.pc = "sleep", !.outcome = o.kind,
                                 !.kinds = Append(@, o.kind), !.delay = step.secs]
                 [] OTHER ->
                      [th EXCEPT !.pc = "ret", !.outcome = o.kind, !.prompt = <<>>,
                                 !.kinds = Append(@, o.kind),
                                 !.result = [ kind |-> "raise", text |-> <<>> ]]]
    /\ UNCHANGED << env, surface, loop, pending, context, file, last, files, peer >>

\* time.sleep of an except clause, then the next iteration of range(MAX_RETRIES)
Sleep(t) ==
    /\ threads[t].pc = "sleep"
    /\ LET th == threads[t]
       IN  threads' = [threads EXCEPT ![t] =
               IF th.attempt + 1 < MAX_RETRIES
               THEN [th EXCEPT !.pc = "attempt", !.attempt = th.attempt + 1,
                               !.sleeps = Append(th.sleeps, th.delay), !.delay = 0]
               ELSE [th EXCEPT !.pc = "ret", !.attempt = th.attempt + 1,
                               !.sleeps = Append(th.sleeps, th.delay), !.delay = 0,
                               !.result = [ kind |-> "value", text |-> ErrNoResponse ]]]
    /\ UNCHANGED << env, surface, loop, pending, context, file, last, files, peer >>

Ok(body) ==
    [ kind |-> "success", body |-> body ]

Fail(kind) ==
    [ kind |-> kind, body |-> <<>> ]

\* how the requests of one call end, in the session specification: every
\* sequence of replies, timeouts, refused connections and replies without
\* the field
SessionOutcomes ==
    { Ok(b) : b \in Bodies } \cup { Fail("timeout"), Fail("connection"), Fail("missing_field") }

\* a request that is not retried ends the call: what is listed after it is
\* never read, so it repeats that outcome
Scripts ==
    { s \in [1..MAX_RETRIES -> SessionOutcomes] :
        \A i \in 1..(MAX_RETRIES - 1) :
            s[i].kind \notin { "timeout", "connection" } => s[i + 1] = s[i] }

\* what the caller of _call_llm sees of a call: the value returned or the
\* exception raised, and how the last request ended
CallResult(script) ==
    LET run == CallLlm(script)
    IN  [ kind |-> run.kind, text |-> run.text, outcome |-> run.outcome ]

\* what _call_llm can come to in the session specification
SessionRuns ==
    { CallResult(s) : s \in Scripts }

\* _call_llm from its first request to its return, as one step
Call(t, run) ==
    /\ threads[t].pc = "attempt"
    /\ LET th == threads[t]
       IN  threads' = [threads EXCEPT ![t] =
               [th EXCEPT !.pc = "ret", !.outcome = run.outcome, !.prompt = <<>>,
                          !.result = [ kind |-> run.kind, text |-> run.text ]]]
    /\ UNCHANGED << env, surface, loop, pending, context, file, last, files, peer >>

\* ------------------------------------------------------------------------
\* Completion of a session operation
\* ------------------------------------------------------------------------

\* the operation of thread t returns reply: the loop prints it, a worker
\* emits it to the event thread
Complete(t, op, input, reply, calls, raised, overlap, report) ==
    /\ threads' = [threads EXCEPT ![t] =
           IF t \in Workers
           THEN [IdleThread EXCEPT !.pc = "emitted", !.signal = threads[t].signal,
                                   !.reply = reply,
                                   !.result = IF raised
                                              THEN [ kind |-> "raise", text |-> <<>> ]
                                              ELSE NoResult]
           ELSE IdleThread]
    /\ last' = [ op |-> op, input |-> input, reply |-> reply, calls |-> calls,
                 raised |-> raised, was_pending |-> confirmation_mode,
                 outcome |-> threads[t].outcome,
                 kinds |-> IF op = "turn" THEN threads[t].kinds ELSE <<>>,
                 overlap |-> overlap, report |-> report ]

\* process_user_input from the return of _call_llm to its own return
FinishTurn(t) ==
    /\ threads[t].pc = "ret"
    /\ threads[t].op = "turn"
    /\ LET th == threads[t]
       IN  IF th.result.kind = "raise"
           THEN /\ Complete(t, "turn", th.input, <<>>, th.calls, TRUE, FALSE, <<>>)
                /\ UNCHANGED << env, context, file, pending >>
           ELSE \E r \in ProcessReply(context, file, pending, th.input, th.result.text) :
                    /\ context' = r.context
                    /\ file' = r.file
                    /\ env' = [env EXCEPT !.format = r.format]
                    /\ pending' = IF r.raised = "none" THEN r.pending ELSE pending
                    /\ Complete(t, "turn", th.input,
                                IF r.raised = "none" THEN r.reply ELSE <<>>,
                                th.calls, r.raised # "none",
                                SeqToSet(r.todo_items)
                                    \cap SeqToSet(Get(context, "todo_list", <<>>)) # {},
                                r.report)
    /\ UNCHANGED << surface, loop, files, peer >>

\* FinishConfirmation that handles the reply to the follow-up call as
\* process_user_input handles the reply of a turn
FinishConfirmation_Interprets(t) ==
    /\ threads[t].pc = "ret"
    /\ threads[t].op = "confirm"
    /\ LET th == threads[t]
       IN  \E r \in ProcessReply(context, file, pending, th.input,
                                 IF th.result.kind = "raise" THEN ErrContinuing
                                 ELSE th.result.text) :
               /\ context' = r.context
               /\ file' = r.file
               /\ pending' = r.pending
               /\ Complete(t, "confirm", th.input, r.reply, th.calls, FALSE, FALSE, <<>>)
    /\ UNCHANGED << env, surface, loop, files, peer >>

\* _handle_confirmation_response from the return of the follow-up call
FinishConfirmation(t) ==
    /\ threads[t].pc = "ret"
    /\ threads[t].op = "confirm"
    /\ LET th == threads[t]
       IN  Complete(t, "confirm", th.input,
                    IF th.result.kind = "raise" THEN ErrContinuing ELSE th.result.text,
                    th.calls, FALSE, FALSE, <<>>)
    /\ UNCHANGED << env, surface, loop, pending, context, file, files, peer >>

\* _test_llm_connection from the return of _call_llm
FinishTest(t) ==
    /\ threads[t].pc = "ret"
    /\ threads[t].op = "test"
    /\ LET th == threads[t]
       IN  Complete(t, "test", th.input, th.result.text, th.calls, FALSE, FALSE, <<>>)
    /\ UNCHANGED << env, surface, loop, pending, context, file, files, peer >>

\* _handle_confirmation_response, called by thread t
HandleConfirmationResponse(t, user_input) ==
    LET r == ConfirmationResponse(pending, user_input)
    IN  /\ pending' = r.pending
        /\ IF r.call
           THEN /\ StartCall(t, "confirm", "none", user_input)
                /\ UNCHANGED last
           ELSE Complete(t, "confirm", user_input, r.reply, 0, FALSE, FALSE, <<>>)

\* ------------------------------------------------------------------------
\* run_interactive_loop: one action per branch of an iteration
\* ------------------------------------------------------------------------

LoopReady ==
    /\ surface = "cli"
    /\ loop = "running"
    /\ threads[Main].pc = "idle"

\* empty line, help, status, todo, files, ls, confirm
LoopPrint(line) ==
    /\ LoopReady
    /\ LoopRoute(line, confirmation_mode) \in { "empty", "print" }
    /\ last' = IF LoopRoute(line, confirmation_mode) = "print"
               THEN [NoOperation EXCEPT !.op = "print", !.input = Strip(line),
                                        !.was_pending = confirmation_mode]
               ELSE last
    /\ UNCHANGED << env, surface, loop, pending, context, file, threads, files, peer >>

\* exit, quit, q
LoopExit(line) ==
    /\ LoopReady
    /\ LoopRoute(line, confirmation_mode) = "exit"
    /\ loop' = "exited"
    /\ UNCHANGED << env, surface, pending, context, file, threads, last, files, peer >>

\* test
LoopTest(line) ==
    /\ LoopReady
    /\ LoopRoute(line, confirmation_mode) = "test"
    /\ StartCall(Main, "test", "none", TestPrompt)
    /\ UNCHANGED << env, surface, loop, pending, context, file, last, files, peer >>

\* ClearGate that leaves the gate as it is
ClearGate_Keeps(pend) ==
    pend

\* the clear branch of the loop, lines 472-478: the gate it leaves
ClearGate(pend) ==
    {}

\* clear
LoopClear(line) ==
    /\ LoopReady
    /\ LoopRoute(line, confirmation_mode) = "clear"
    /\ pending' = ClearGate(pending)
    /\ last' = [NoOperation EXCEPT !.op = "clear", !.input = Strip(line),
                                  !.was_pending = confirmation_mode]
    /\ UNCHANGED << env, surface, loop, context, file, threads, files, peer >>

\* any other line while confirmation_mode is set
LoopConfirmation(line) ==
    /\ LoopReady
    /\ LoopRoute(line, confirmation_mode) = "confirmation"
    /\ HandleConfirmationResponse(Main, Strip(line))
    /\ UNCHANGED << env, surface, loop, context, file, files, peer >>

\* any other line otherwise: process_user_input up to its call of
\* _call_llm, while the history holds fewer than max entries
LoopTurnWithin(line, max) ==
    /\ LoopReady
    /\ LoopRoute(line, confirmation_mode) = "turn"
    /\ Len(Get(context, "conversation_history", <<>>)) < max
    /\ StartCall(Main, "turn", "none", Strip(line))
    /\ UNCHANGED << env, surface, loop, pending, context, file, last, files, peer >>

LoopTurn(line) ==
    LoopTurnWithin(line, MaxHistory)

\* ------------------------------------------------------------------------
\* MainWindow: the handlers of the event thread
\* ------------------------------------------------------------------------

GuiReady ==
    /\ surface = "gui"
    /\ threads[Main].pc = "idle"

\* ChatWidget.send_message and handle_user_message: a worker runs the turn
GuiSendMessage(line) ==
    /\ GuiReady
    /\ Strip(line) # <<>>
    /\ GuiRoute(Strip(line), confirmation_mode) = "turn"
    /\ threads[LlmWorker].pc = "idle"
    /\ Len(context.conversation_history) < MaxHistory
    /\ StartCall(LlmWorker, "turn", "chat", Strip(line))
    /\ UNCHANGED << env, surface, loop, pending, context, file, last, files, peer >>

\* test_llm_connection: a worker runs a turn on the test prompt
GuiTestConnection ==
    /\ GuiReady
    /\ threads[TestWorker].pc = "idle"
    /\ Len(context.conversation_history) < MaxHistory
    /\ StartCall(TestWorker, "turn", "test", TestPrompt)
    /\ UNCHANGED << env, surface, loop, pending, context, file, last, files, peer >>

\* handle_llm_response (handle_llm_error when the worker raised), up to
\* the opening of the confirmation dialog
GuiHandleLlmResponse(w) ==
    /\ GuiReady
    /\ threads[w].pc = "emitted"
    /\ threads[w].signal = "chat"
    /\ threads' = [threads EXCEPT
           ![w] = IdleThread,
           ![Main] = IF /\ threads[w].result.kind # "raise"
                        /\ Contains(threads[w].reply, AwaitingMarker)
                        /\ confirmation_mode
                     THEN [IdleThread EXCEPT !.pc = "dialog"]
                     ELSE IdleThread]
    /\ UNCHANGED << env, surface, loop, pending, context, file, last, files, peer >>

\* handle_test_response, handle_test_error
GuiHandleTestResponse(w) ==
    /\ GuiReady
    /\ threads[w].pc = "emitted"
    /\ threads[w].signal = "test"
    /\ threads' = [threads EXCEPT ![w] = IdleThread]
    /\ UNCHANGED << env, surface, loop, pending, context, file, last, files, peer >>

\* show_confirmation_dialog once dialog.exec() returns, and
\* handle_confirmation_response
GuiDialogClose(accepted) ==
    /\ surface = "gui"
    /\ threads[Main].pc = "dialog"
    /\ HandleConfirmationResponse(Main, IF accepted THEN DialogYes ELSE DialogNo)
    /\ UNCHANGED << env, surface, loop, context, file, files, peer >>

\* ------------------------------------------------------------------------
\* Specifications
\* ------------------------------------------------------------------------

\* the session under either surface, a call of the backend being one step
Next ==
    \/ \E t \in ThreadIds, run \in SessionRuns : Call(t, run)
    \/ \E t \in ThreadIds : FinishTurn(t)
    \/ \E t \in ThreadIds : FinishConfirmation(t)
    \/ \E t \in ThreadIds : FinishTest(t)
    \/ \E line \in UserLines : LoopPrint(line)
    \/ \E line \in UserLines : LoopExit(line)
    \/ \E line \in UserLines : LoopTest(line)
    \/ \E line \in UserLines : LoopClear(line)
    \/ \E line \in UserLines : LoopConfirmation(line)
    \/ \E line \in UserLines : LoopTurn(line)
    \/ \E line \in GuiLines : GuiSendMessage(line)
    \/ GuiTestConnection
    \/ GuiHandleLlmResponse(LlmWorker)
    \/ GuiHandleTestResponse(TestWorker)
    \/ \E accepted \in BOOLEAN : GuiDialogClose(accepted)

Spec == Init /\ [][Next]_vars

\* the backend client alone, one step per request and per sleep, driven by
\* the test command of the loop, which calls _call_llm and nothing else
InitCall ==
    /\ Init
    /\ surface = "cli"

NextCall ==
    \/ \E line \in UserLines : LoopTest(line)
    \/ \E o \in Outcomes : Attempt(Main, o)
    \/ Sleep(Main)
    \/ FinishTest(Main)

SpecCall == InitCall /\ [][NextCall]_vars

\* requests.post ends within REQUEST_TIMEOUT, time.sleep ends, and the
\* code that follows the call does not block
CallSteps ==
    \/ \E o \in Outcomes : Attempt(Main, o)
    \/ Sleep(Main)
    \/ FinishTest(Main)

FairSpecCall == SpecCall /\ WF_vars(CallSteps)

\* what the user asks for in the turn specification
TurnLines ==
    { <<"a","d","d"," ","t","e","s","t","s">> }

\* a turn of the loop, its call of the backend followed request by request,
\* each request ending in one of the ways the session specification knows
NextTurn ==
    \/ \E line \in TurnLines : LoopTurn(line)
    \/ \E o \in SessionOutcomes : Attempt(Main, o)
    \/ Sleep(Main)
    \/ FinishTurn(Main)

SpecTurn == InitCall /\ [][NextTurn]_vars

\* ------------------------------------------------------------------------
\* The session from one run of the program to the next
\* ------------------------------------------------------------------------

\* main: ULCAgent(project_dir) loads or creates the context and the loop
\* begins; an exception of the constructor is the 'Fatal error' of main
StartSession ==
    /\ surface = "cli"
    /\ loop # "running"
    /\ LET r == LoadOrCreateContext(file, env.format)
       IN  /\ loop' = IF r.raised = "none" THEN "running" ELSE "crashed"
           /\ context' = r.context
           /\ file' = r.file
           /\ env' = [env EXCEPT !.format = r.format]
           /\ last' = [NoOperation EXCEPT !.op = "start", !.raised = (r.raised # "none")]
    /\ pending' = {}
    /\ threads' = [t \in ThreadIds |-> IdleThread]
    /\ UNCHANGED << surface, files, peer >>

\* the process ends without leaving the loop: what it had in memory is gone
ProcessKilled ==
    /\ surface = "cli"
    /\ loop = "running"
    /\ loop' = "killed"
    /\ context' = NoContext
    /\ pending' = {}
    /\ threads' = [t \in ThreadIds |-> IdleThread]
    /\ last' = [NoOperation EXCEPT !.op = "killed"]
    /\ UNCHANGED << env, surface, file, files, peer >>

\* no reading of the clock and no write lies between this state and the
\* next start of a session or end of a backend call
Elapsing ==
    \/ loop # "running"
    \/ threads[Main].pc = "attempt"

\* the wall clock datetime.now() reads comes to show c: time passes, or the
\* clock is set (the readings are naive local time)
ClockSet(c) ==
    /\ Elapsing
    /\ c # env.clock
    /\ env' = [env EXCEPT !.clock = c]
    /\ UNCHANGED << surface, loop, pending, context, file, threads, last, files, peer >>

\* the project directory comes to take writes (ok), to refuse them at
\* open() (refused) or to break them off (torn)
DiskSet(d) ==
    /\ Elapsing
    /\ d # env.disk
    /\ env' = [env EXCEPT !.disk = d]
    /\ UNCHANGED << surface, loop, pending, context, file, threads, last, files, peer >>

\* the calls of the store specification: a reply without work items and one
\* with a work item
StoreRuns ==
    { run \in SessionRuns :
        /\ run.kind = "value"
        /\ run.text \in { <<"D","o","n","e",".">>, <<"1","."," ","T","a","s","k",":"," ","w","r","i","t","e"," ","t","e","s","t","s">> } }

DiskStates ==
    { "ok", "refused", "torn" }

\* the program is started in a directory without a context file, or with a
\* file that is not JSON or not UTF-8
InitStore ==
    /\ env \in [ clock : 0..MaxClock, format : { "absent", "not_json", "not_utf8" },
                 disk : { "ok" } ]
    /\ surface = "cli"
    /\ loop = "starting"
    /\ pending = {}
    /\ context = NoContext
    /\ file = NoContext
    /\ threads = [t \in ThreadIds |-> IdleThread]
    /\ last = NoOperation
    /\ files = NoFiles
    /\ peer = NoPeer

NextStore ==
    \/ StartSession
    \/ ProcessKilled
    \/ \E c \in 0..MaxClock : ClockSet(c)
    \/ \E d \in DiskStates : DiskSet(d)
    \/ \E line \in TurnLines : LoopTurnWithin(line, MaxStored)
    \/ \E run \in StoreRuns : Call(Main, run)
    \/ FinishTurn(Main)

SpecStore == InitStore /\ [][NextStore]_vars

\* what json.load reads from a project_context.json that is a JSON object
\* but not one a session has written: {"project_goal": "demo"}
ForeignContext ==
    [ project_goal |-> <<"d","e","m","o">> ]

\* the program is started in a directory whose context file is such a document
InitLoad ==
    /\ env \in [ clock : 0..MaxClock, format : { "json" }, disk : { "ok" } ]
    /\ surface = "cli"
    /\ loop = "starting"
    /\ pending = {}
    /\ context = NoContext
    /\ file = ForeignContext
    /\ threads = [t \in ThreadIds |-> IdleThread]
    /\ last = NoOperation
    /\ files = NoFiles
    /\ peer = NoPeer

SpecLoad == InitLoad /\ [][NextStore]_vars

\* ------------------------------------------------------------------------
\* Two sessions on one project directory
\* ------------------------------------------------------------------------

\* what the user of the second session asks for
PeerLines ==
    { <<"f","i","x"," ","b","u","g">> }

\* the program is started a second time on the directory: ULCAgent(project_dir)
\* loads the context file
PeerStart ==
    /\ peer.loop = "none"
    /\ LET r == LoadOrCreateContext(file, env.format)
       IN  /\ peer' = [ loop |-> IF r.raised = "none" THEN "running" ELSE "crashed",
                        context |-> r.context ]
           /\ file' = r.file
           /\ env' = [env EXCEPT !.format = r.format]
    /\ UNCHANGED << surface, loop, pending, context, threads, last, files >>

\* a turn of the second session, from the line typed to the return of
\* process_user_input, the backend answering without a request for approval
PeerTurn(line, run) ==
    /\ peer.loop = "running"
    /\ Len(peer.context.conversation_history) < MaxStored
    /\ \E r \in ProcessReply(peer.context, file, {}, Strip(line), run.text) :
           /\ peer' = [peer EXCEPT !.context = r.context]
           /\ file' = r.file
           /\ env' = [env EXCEPT !.format = r.format]
    /\ UNCHANGED << surface, loop, pending, context, threads, last, files >>

\* the second session ends
PeerExit ==
    /\ peer.loop = "running"
    /\ peer' = NoPeer
    /\ UNCHANGED << env, surface, loop, pending, context, file, threads, last, files >>

\* a session at its prompt, and the same program started again on its directory
NextPeers ==
    \/ \E line \in TurnLines : LoopTurnWithin(line, MaxStored)
    \/ \E run \in StoreRuns : Call(Main, run)
    \/ FinishTurn(Main)
    \/ PeerStart
    \/ \E line \in PeerLines, run \in StoreRuns : PeerTurn(line, run)
    \/ PeerExit

SpecPeers == InitCall /\ [][NextPeers]_vars

\* what the entries of a stored history say
PromptInputs ==
    { <<"f","i","x"," ","b","u","g">>, <<"a","d","d"," ","t","e","s","t","s">> }

\* the histories of up to MaxEntries entries, written one per second
PromptHistories ==
    UNION { { [i \in 1..n |-> [ timestamp |-> i, user_input |-> q[i],
                                agent_response |-> <<"D","o","n","e",".">>,
                                action_taken |-> <<>> ]] :
                q \in [1..n -> PromptInputs] } : n \in 0..MaxEntries }

\* the prompt assembly alone: the session has loaded a history from the file
\* and the loop waits for input
InitPrompt ==
    /\ env = [ clock |-> 0, format |-> "json", disk |-> "ok" ]
    /\ surface = "cli"
    /\ loop = "running"
    /\ pending = {}
    /\ \E h \in PromptHistories :
           /\ context = [NewContext EXCEPT !.conversation_history = h,
                                           !.last_updated = Len(h)]
           /\ file = context
    /\ threads = [t \in ThreadIds |-> IdleThread]
    /\ last = NoOperation
    /\ files = NoFiles
    /\ peer = NoPeer

NextPrompt ==
    \E line \in TurnLines : LoopTurnWithin(line, MaxEntries + 1)

SpecPrompt == InitPrompt /\ [][NextPrompt]_vars

\* ------------------------------------------------------------------------
\* File operations
\* ------------------------------------------------------------------------

\* the answers typed at the approval prompt of a file operation
ApprovalLines ==
    { <<>>, <<"y">>, <<"Y">>, <<"y","e","s">>, <<"Y","E","S">>, <<"Y","e","s">>, <<" ","y">>, <<"y","e","s"," ">>, <<" ">>,
      <<"n">>, <<"N">>, <<"n","o">>, <<"o","k">>, <<"y","e","s"," ","p","l","e","a","s","e">> }

\* HandleFileOperation that takes an empty answer for a refusal
HandleFileOperation_EmptyDeclines(response) ==
    Lower(Strip(response)) \in { <<"y">>, <<"y","e","s">> }

\* _handle_file_operation, lines 252-256: whether the answer approves
HandleFileOperation(response) ==
    Lower(Strip(response)) \in { <<>>, <<"y">>, <<"y","e","s">> }

\* the operation text of the approval prompt
OperationText(op, path) ==
    CASE op = "create" -> <<"O","v","e","r","w","r","i","t","e"," ","e","x","i","s","t","i","n","g"," ","f","i","l","e",":"," ">> \o path
      [] op = "modify" -> <<"M","o","d","i","f","y"," ","e","x","i","s","t","i","n","g"," ","f","i","l","e",":"," ">> \o path
      [] OTHER -> <<"D","E","L","E","T","E"," ","f","i","l","e",":"," ">> \o path

\* the questions a file operation asks before it touches the file: _create_file
\* asks when the file exists (line 262), _modify_file hands a file that does
\* not exist to _create_file (lines 281-283), _delete_file returns on one
\* (lines 302-304)
ApprovalQuestions(fs, op, path) ==
    IF fs[path] = Absent THEN <<>> ELSE << OperationText(op, path) >>

\* open(full_path, 'w') and f.write(content) under try/except Exception: the
\* files afterwards and the value returned
WriteFile(fs, path, content) ==
    CASE env.disk = "ok" ->
             { [ files |-> [fs EXCEPT ![path] = content], returned |-> TRUE ] }
      [] env.disk = "refused" ->
             { [ files |-> fs, returned |-> FALSE ] }
      [] OTHER ->
             { [ files |-> [fs EXCEPT ![path] = SubSeq(content, 1, k)], returned |-> FALSE ] :
                 k \in 0..(Len(content) - 1) }

\* full_path.unlink() under try/except Exception
UnlinkFile(fs, path) ==
    IF env.disk = "refused"
    THEN { [ files |-> fs, returned |-> FALSE ] }
    ELSE { [ files |-> [fs EXCEPT ![path] = Absent], returned |-> TRUE ] }

\* what a file operation does once no approval stands in its way
Perform(fs, op, path, content) ==
    CASE op = "delete" /\ fs[path] = Absent -> { [ files |-> fs, returned |-> FALSE ] }
      [] op = "delete" -> UnlinkFile(fs, path)
      [] OTHER -> WriteFile(fs, path, content)

\* the thread inside _handle_file_operation, at input()
AtApproval(op, path, content, question) ==
    [ pc |-> "approval", op |-> op, path |-> path, content |-> content,
      question |-> question ]

\* a file operation that has returned
FileResult(op, path, content, asked, answers, returned) ==
    [ op |-> op, path |-> path, content |-> content, asked |-> asked,
      answers |-> answers, returned |-> returned ]

FileOperations ==
    { "create", "modify", "delete" }

\* _create_file, _modify_file or _delete_file is called: it returns at once,
\* or prints the proposed operation and waits for the answer
FileOperationCall(op, path, content) ==
    /\ loop = "running"
    /\ threads[Main].pc = "idle"
    /\ LET asked == ApprovalQuestions(files, op, path)
       IN  IF asked = <<>>
           THEN /\ \E r \in Perform(files, op, path, content) :
                       /\ files' = r.files
                       /\ last' = FileResult(op, path, content, <<>>, <<>>, r.returned)
                /\ UNCHANGED threads
           ELSE /\ threads' = [threads EXCEPT
                                   ![Main] = AtApproval(op, path, content, asked[1])]
                /\ UNCHANGED << files, last >>
    /\ UNCHANGED << env, surface, loop, pending, context, file, peer >>

\* the answer to 'Do you approve this operation? [Y/n]' is typed
ApprovalAnswer(response) ==
    /\ loop = "running"
    /\ threads[Main].pc = "approval"
    /\ LET c == threads[Main]
       IN  IF HandleFileOperation(response)
           THEN \E r \in Perform(files, c.op, c.path, c.content) :
                    /\ files' = r.files
                    /\ last' = FileResult(c.op, c.path, c.content, << c.question >>,
                                          << response >>, r.returned)
           ELSE /\ files' = files
                /\ last' = FileResult(c.op, c.path, c.content, << c.question >>,
                                      << response >>, FALSE)
    /\ threads' = [threads EXCEPT ![Main] = IdleThread]
    /\ UNCHANGED << env, surface, loop, pending, context, file, peer >>

\* a session whose project directory holds any of the files, and takes
\* writes, refuses them or breaks them off
InitFiles ==
    /\ env \in [ clock : { 0 }, format : { "json" }, disk : DiskStates ]
    /\ surface = "cli"
    /\ loop = "running"
    /\ pending = {}
    /\ context = NewContext
    /\ file = NewContext
    /\ threads = [t \in ThreadIds |-> IdleThread]
    /\ last = NoOperation
    /\ files \in [Paths -> Contents \cup { Absent }]
    /\ peer = NoPeer

NextFiles ==
    \/ \E op \in FileOperations, path \in Paths :
           \E content \in (IF op = "delete" THEN { <<>> } ELSE Contents) :
               FileOperationCall(op, path, content)
    \/ \E response \in ApprovalLines : ApprovalAnswer(response)

SpecFiles == InitFiles /\ [][NextFiles]_vars

\* lines a reply may be made of: the list markers the interpreter knows, with
\* and without its keywords, and lines that only look like list lines
ReplyLines ==
    { <<"-"," ","t","o","d","o",":"," ","a","d","d"," ","l","o","g","g","i","n","g">>,
      <<"*"," ","T","a","s","k",":"," ","w","r","i","t","e"," ","t","e","s","t","s">>,
      <<"-"," ","N","o","t"," ","a"," ","t","a","s","k"," ","l","i","n","e">>,
      << Bullet >> \o <<" ","T","O","D","O"," ","x">>,
      <<"1","."," ","t","o","d","o"," ","b">>,
      <<"2"," ","t","a","s","k","s"," ","l","e","f","t","."," ","o","k">>,
      <<"2",")"," ","t","o","d","o"," ","c">>,
      <<"t","o","d","o",":"," ","d">>,
      <<"-"," ","f","i","x"," ","b","u","g">>,
      <<" "," ","-"," ","T","O","D","O"," ","e"," ">>,
      <<>> }

ScenarioReply ==
    <<"-"," ","t","o","d","o",":"," ","a","d","d"," ","l","o","g","g","i","n","g","\n","*"," ","T","a","s","k",":"," ","w","r","i","t","e"," ","t","e","s","t","s","\n","-"," ","N","o","t"," ","a"," ","t","a","s","k"," ","l","i","n","e">>

\* n times the character c
Rep(c, n) ==
    [i \in 1..n |-> c]

\* replies that ask for approval: the phrase alone, a phrase late in the
\* list before one early in the list, a phrase whose window begins and ends
\* on a blank, a phrase that holds another one, a phrase twice
AskReplies ==
    { <<"S","h","o","u","l","d"," ","I"," ","p","r","o","c","e","e","d"," ","w","i","t","h"," ","d","e","l","e","t","i","n","g"," ","t","h","e"," ","f","i","l","e","?">>,
      <<"M","a","y"," ","I"," ","p","r","o","c","e","e","d","?">> \o Rep("x", 350) \o <<"S","h","o","u","l","d"," ","I"," ","p","r","o","c","e","e","d","?">> \o Rep("y", 50),
      Rep("a", 30) \o << " " >> \o Rep("b", 99) \o <<"S","h","a","l","l"," ","I"," ","c","o","n","t","i","n","u","e","?">>
          \o Rep("c", 182) \o << " " >> \o Rep("d", 60),
      Rep("a", 130) \o <<"D","o"," ","y","o","u"," ","w","a","n","t"," ","m","e"," ","t","o"," ","c","o","n","t","i","n","u","e","?">> \o Rep("c", 250),
      <<"C","a","n"," ","I"," ","p","r","o","c","e","e","d","?"," ","c","a","n"," ","i"," ","p","r","o","c","e","e","d","?">> }

\* the values of the "response" field the interpreter is run on
Replies ==
    { JoinLines(q) : q \in UNION { [1..n -> ReplyLines] : n \in 1..MaxLines } }
    \cup { ScenarioReply }
    \cup AskReplies

\* the interpreter and the todo update alone: _call_llm has returned the
\* reply to a first turn of the loop
InitParse ==
    /\ env = [ clock |-> 0, format |-> "json", disk |-> "ok" ]
    /\ surface = "cli"
    /\ loop = "running"
    /\ pending = {}
    /\ context = NewContext
    /\ file = NewContext
    /\ last = NoOperation
    /\ files = NoFiles
    /\ peer = NoPeer
    /\ \E reply \in Replies :
           threads = [t \in ThreadIds |->
               IF t = Main
               THEN [IdleThread EXCEPT !.pc = "ret", !.op = "turn",
                                       !.input = <<"a","d","d"," ","t","e","s","t","s">>,
                                       !.calls = 1, !.outcome = "success",
                                       !.kinds = << "success" >>,
                                       !.result = [ kind |-> "value", text |-> Strip(reply) ]]
               ELSE IdleThread]

NextParse ==
    FinishTurn(Main)

SpecParse == InitParse /\ [][NextParse]_vars

\* ------------------------------------------------------------------------
\* Vocabulary of the properties
\* ------------------------------------------------------------------------

\* how _handle_confirmation_response reads an answer
IsAffirmative(u) == Strip(Lower(u)) \in AffirmativeTokens

IsNegative(u) == Strip(Lower(u)) \in NegativeTokens

IsExitToken(u) == Strip(Lower(u)) \in ExitTokens

\* the answers the two surfaces can pass to _handle_confirmation_response
Answers ==
    { Strip(line) : line \in UserLines } \cup { DialogYes, DialogNo }

\* the answers that are affirmative, negative, and neither of these nor an
\* exit token
AffirmativeAnswers == { u \in Answers : IsAffirmative(u) }

NegativeAnswers == { u \in Answers : IsNegative(u) }

UnclearAnswers ==
    { u \in Answers : ~IsAffirmative(u) /\ ~IsNegative(u) /\ ~IsExitToken(u) }

\* this step is a call of _handle_confirmation_response with answer u
Responds(u) ==
    \/ \E line \in UserLines : Strip(line) = u /\ LoopConfirmation(line)
    \/ \E accepted \in BOOLEAN :
           (IF accepted THEN DialogYes ELSE DialogNo) = u /\ GuiDialogClose(accepted)

\* no thread enters _call_llm in this step
NoCallStarted ==
    \A t \in ThreadIds : threads'[t].pc = "attempt" => threads[t].pc = "attempt"

\* this step is the end of a turn of thread t whose reply asks for approval
\* while no confirmation is pending
GateTurn(t) ==
    /\ threads[t].pc = "ret"
    /\ threads[t].op = "turn"
    /\ ~confirmation_mode
    /\ threads[t].result.kind = "value"
    /\ ~StartsWith(threads[t].result.text, ErrorMarker)
    /\ Interpret(threads[t].result.text).needs_confirmation
    /\ FinishTurn(t)

\* ------------------------------------------------------------------------
\* C1 .. C10
\* ------------------------------------------------------------------------

\* C1: while a confirmation is pending, no surface starts a turn (prompt
\* assembly and backend call of process_user_input) for what the user typed.
C1_OrdinaryInputGated ==
    [][ \A t \in ThreadIds :
          ( /\ threads[t].pc # "attempt"
            /\ threads'[t].pc = "attempt"
            /\ threads'[t].op = "turn"
            /\ threads'[t].signal # "test" )
          => ~confirmation_mode ]_vars

\* C2: an affirmative answer to a pending confirmation clears the pending
\* state and enters _call_llm once; when that call returns, its value is the
\* reply, one call has been made and the operation has not set the gate
\* again (under the loop, where nothing else runs, the gate is READY).
C2_AffirmativeFollowsUp ==
    [][ /\ \A u \in AffirmativeAnswers :
              (confirmation_mode /\ Responds(u))
              => /\ pending' = {}
                 /\ threads'[Main].pc = "attempt"
                 /\ threads'[Main].op = "confirm"
                 /\ threads'[Main].calls = 1
                 /\ \A w \in Workers : threads'[w] = threads[w]
                 /\ UNCHANGED << context, file >>
        /\ FinishConfirmation(Main)
              => /\ last'.op = "confirm"
                 /\ last'.reply = threads[Main].result.text
                 /\ last'.calls = 1
                 /\ threads'[Main].pc = "idle"
                 /\ pending' = pending
                 /\ (surface = "cli" => pending' = {}) ]_vars

C2_Witness ==
    /\ last.op = "confirm"
    /\ last.calls = 1
    /\ IsAffirmative(last.input)
    /\ last.reply = <<"D","o","n","e",".">>
    /\ ~confirmation_mode
    /\ threads[Main].pc = "idle"

\* C3: a negative answer to a pending confirmation clears the pending state,
\* returns the cancellation notice and makes no backend call.
C3_NegativeCancels ==
    [][ \A u \in NegativeAnswers :
          (confirmation_mode /\ Responds(u))
          => /\ pending' = {}
             /\ last'.op = "confirm"
             /\ last'.reply = CancelNotice
             /\ last'.calls = 0
             /\ threads'[Main].pc = "idle"
             /\ NoCallStarted
             /\ UNCHANGED << context, file >> ]_vars

C3_Witness ==
    /\ last.op = "confirm"
    /\ IsNegative(last.input)
    /\ last.was_pending
    /\ last.reply = CancelNotice
    /\ last.calls = 0
    /\ ~confirmation_mode

\* C4: an answer that is neither affirmative, negative nor an exit token
\* leaves the pending confirmation and the context as they are, makes no
\* backend call and returns the clarification request.
C4_UnclearKeepsWaiting ==
    [][ \A u \in UnclearAnswers :
          (confirmation_mode /\ Responds(u))
          => /\ pending' = pending
             /\ last'.op = "confirm"
             /\ last'.reply = Clarification(u)
             /\ last'.calls = 0
             /\ NoCallStarted
             /\ UNCHANGED << context, file >> ]_vars

C4_Witness ==
    /\ last.op = "confirm"
    /\ last.input = <<"m","a","y","b","e">>
    /\ last.reply = Clarification(<<"m","a","y","b","e">>)
    /\ last.calls = 0
    /\ confirmation_mode

\* C5: an exit token typed while a confirmation is pending clears the
\* pending state without a backend call, and the session goes on in READY.
C5_ExitLeavesReady ==
    [][ \A line \in UserLines :
          ( /\ LoopReady
            /\ confirmation_mode
            /\ IsExitToken(Strip(line))
            /\ (LoopExit(line) \/ LoopConfirmation(line)) )
          => /\ pending' = {}
             /\ loop' = "running"
             /\ NoCallStarted ]_vars

\* C6, as claimed: a turn whose reply asks for approval enters the gate and
\* returns the reply of the backend.
C6_ReplyTextReturned ==
    [][ \A t \in ThreadIds :
          GateTurn(t)
          => /\ confirmation_mode'
             /\ Contains(last'.reply, threads[t].result.text) ]_vars

\* C6, amended: a turn whose reply asks for approval enters the gate, keeps
\* the snippet as the pending question and returns the marker
\* AWAITING_CONFIRMATION, which does not hold the reply of the backend.
C6_MarkerReturned ==
    [][ \A t \in ThreadIds :
          GateTurn(t)
          => /\ pending' = { [ action |-> "llm_confirmation",
                               question |-> Interpret(threads[t].result.text).confirmation_question ] }
             /\ last'.op = "turn"
             /\ last'.reply = AwaitingMarker
             /\ ~Contains(last'.reply, threads[t].result.text) ]_vars

C6_Witness ==
    /\ last.op = "turn"
    /\ ~last.was_pending
    /\ last.reply = AwaitingMarker
    /\ confirmation_mode
    /\ pending_action = "llm_confirmation"
    /\ pending_question = <<"P","l","a","n",":","\n","-"," ","T","O","D","O",":"," ","a","d","d"," ","l","o","g","g","i","n","g","\n","S","h","o","u","l","d"," ","I"," ","p","r","o","c","e","e","d","?">>

\* C7: at most one PendingConfirmation is live, also after a reply has asked
\* for approval while one was pending.
C7_OnePending ==
    Cardinality(pending) <= 1

C7_Witness ==
    /\ last.op = "turn"
    /\ last.was_pending
    /\ last.reply = AwaitingMarker
    /\ Cardinality(pending) = 1

\* C8: _call_llm raises nothing: however its requests end, it returns the
\* stripped reply or a text that starts with the error marker.
C8_CallNeverRaises ==
    /\ ~last.raised
    /\ \A t \in ThreadIds :
         /\ threads[t].result.kind # "raise"
         /\ threads[t].pc = "ret"
              => /\ threads[t].result.kind = "value"
                 /\ \/ StartsWith(threads[t].result.text, ErrorMarker)
                    \/ threads[t].result.text \in SuccessTexts

C8_Witness ==
    /\ threads[Main].pc = "ret"
    /\ threads[Main].sleeps = << 5 >>
    /\ threads[Main].outcome = "bad_field"
    /\ threads[Main].result.kind = "value"
    /\ StartsWith(threads[Main].result.text, ErrorMarker)

\* the requests and sleeps of a call of _call_llm, at any point of it
CallWithinBounds ==
    LET th == threads[Main]
    IN  /\ th.attempt <= MAX_RETRIES - 1
        /\ th.pc \in { "attempt", "sleep", "ret" } => Len(th.sleeps) = th.attempt
        /\ th.pc = "sleep" => th.attempt < MAX_RETRIES - 1
        /\ th.pc = "ret" => (th.outcome # "none" /\ th.attempt + 1 \in 1..MAX_RETRIES)

\* C9: a call of _call_llm returns, after one to MAX_RETRIES requests, each
\* sleep lying between two requests.
C9_CallTerminates ==
    /\ []CallWithinBounds
    /\ (threads[Main].pc \in { "attempt", "sleep" }) ~> (threads[Main].pc = "ret")

C9_Witness ==
    /\ threads[Main].pc = "ret"
    /\ threads[Main].attempt = MAX_RETRIES - 1
    /\ Len(threads[Main].sleeps) = MAX_RETRIES - 1
    /\ threads[Main].outcome = "connection"

\* C10: a request that times out is followed by a sleep of 5 seconds and the
\* next request, unless it was the last one, which makes the call return an
\* error value that tells of the timeout.
C10_TimeoutRetry ==
    [][ /\ \A o \in Outcomes :
              (o.kind = "timeout" /\ Attempt(Main, o))
              => IF threads[Main].attempt < MAX_RETRIES - 1
                 THEN /\ threads'[Main].pc = "sleep"
                      /\ threads'[Main].delay = 5
                 ELSE /\ threads'[Main].pc = "ret"
                      /\ threads'[Main].result.kind = "value"
                      /\ StartsWith(threads'[Main].result.text, ErrorMarker)
                      /\ Contains(threads'[Main].result.text, <<"t","i","m","e","d"," ","o","u","t">>)
        /\ (threads[Main].outcome = "timeout" /\ Sleep(Main))
              => /\ threads'[Main].pc = "attempt"
                 /\ threads'[Main].attempt = threads[Main].attempt + 1
                 /\ threads'[Main].sleeps = Append(threads[Main].sleeps, 5) ]_vars

C10_Witness ==
    /\ threads[Main].pc = "ret"
    /\ threads[Main].outcome = "timeout"
    /\ threads[Main].sleeps = << 5, 5 >>
    /\ Contains(threads[Main].result.text, <<"t","i","m","e","d"," ","o","u","t">>)

\* ------------------------------------------------------------------------
\* C11 .. C20
\* ------------------------------------------------------------------------

\* a refused connection, another failure of the transport, a status that
\* raise_for_status rejects
BackoffKinds ==
    { "connection", "transport", "status" }

\* C11: a request that is not the last and ends with a refused connection,
\* another transport failure or a rejected status is followed by a sleep of
\* 2^attempt seconds (attempt counted from 0) and then by the next request;
\* after two such failures in a row the second sleep is twice the first.
C11_ExponentialBackoff ==
    [][ /\ \A o \in Outcomes :
              ( /\ o.kind \in BackoffKinds
                /\ threads[Main].attempt < MAX_RETRIES - 1
                /\ Attempt(Main, o) )
              => /\ threads'[Main].pc = "sleep"
                 /\ threads'[Main].delay = 2 ^ threads[Main].attempt
                 /\ ( /\ threads[Main].attempt > 0
                      /\ threads[Main].kinds[threads[Main].attempt] \in BackoffKinds )
                    => threads'[Main].delay = 2 * threads[Main].sleeps[threads[Main].attempt]
        /\ (threads[Main].pc = "sleep" /\ threads[Main].outcome \in BackoffKinds /\ Sleep(Main))
              => /\ threads'[Main].pc = "attempt"
                 /\ threads'[Main].attempt = threads[Main].attempt + 1
                 /\ threads'[Main].sleeps =
                        Append(threads[Main].sleeps, 2 ^ threads[Main].attempt) ]_vars

C11_Witness ==
    /\ threads[Main].pc = "attempt"
    /\ threads[Main].attempt = 2
    /\ threads[Main].kinds = << "connection", "status" >>
    /\ threads[Main].sleeps = << 1, 2 >>

\* C12: a reply without the "response" field makes the call return the
\* malformed-response error value at once, on whichever request it comes:
\* no sleep and no further request.
C12_MissingFieldNotRetried ==
    [][ \A o \in Outcomes :
          (o.kind = "missing_field" /\ Attempt(Main, o))
          => /\ threads'[Main].pc = "ret"
             /\ threads'[Main].result = [ kind |-> "value", text |-> ErrUnexpectedFormat ]
             /\ StartsWith(threads'[Main].result.text, ErrorMarker)
             /\ threads'[Main].attempt = threads[Main].attempt
             /\ threads'[Main].sleeps = threads[Main].sleeps
             /\ threads'[Main].delay = 0 ]_vars

C12_Witness ==
    /\ threads[Main].pc = "ret"
    /\ threads[Main].kinds = << "connection", "missing_field" >>
    /\ threads[Main].sleeps = << 1 >>
    /\ threads[Main].result.text = ErrUnexpectedFormat

\* C13: a value _call_llm returns starts with the error marker exactly when
\* the call failed, so that a caller branching on the marker takes every
\* reply of the backend for a success and every failed call for an error.
C13_MarkerSeparates ==
    \A t \in ThreadIds :
        (threads[t].pc = "ret" /\ threads[t].result.kind = "value")
        => (StartsWith(threads[t].result.text, ErrorMarker)
                <=> threads[t].outcome # "success")

\* what process_user_input returns for the value text of a call
TurnReplyFor(text) ==
    IF StartsWith(text, ErrorMarker) THEN Apology
    ELSE IF Interpret(text).needs_confirmation THEN AwaitingMarker
    ELSE text

TimedOut ==
    <<"t","i","m","e","d"," ","o","u","t">>

\* C15, as claimed: when all three requests of a turn time out, the turn
\* returns a value that starts with the error marker and tells of the timeout.
C15_TurnReturnsTimeoutError ==
    [][ ( /\ threads[Main].pc = "ret"
          /\ threads[Main].kinds = << "timeout", "timeout", "timeout" >>
          /\ FinishTurn(Main) )
        => /\ StartsWith(last'.reply, ErrorMarker)
           /\ Contains(Lower(last'.reply), TimedOut) ]_vars

\* C15, amended: when all three requests of a turn time out, the call
\* returns the error value that starts with the marker and tells of the
\* timeout, and the turn returns the apology, which has neither.
C15_TurnReturnsApology ==
    [][ ( /\ threads[Main].pc = "ret"
          /\ threads[Main].kinds = << "timeout", "timeout", "timeout" >>
          /\ FinishTurn(Main) )
        => /\ threads[Main].result.kind = "value"
           /\ StartsWith(threads[Main].result.text, ErrorMarker)
           /\ Contains(Lower(threads[Main].result.text), TimedOut)
           /\ threads[Main].sleeps = << TIMEOUT_DELAY, TIMEOUT_DELAY >>
           /\ last'.op = "turn"
           /\ last'.reply = Apology
           /\ ~StartsWith(last'.reply, ErrorMarker)
           /\ ~Contains(Lower(last'.reply), TimedOut) ]_vars

C15_Witness ==
    /\ last.op = "turn"
    /\ last.kinds = << "timeout", "timeout", "timeout" >>
    /\ last.reply = Apology

\* C16: a turn whose call has failed returns the apology and leaves the
\* history, the todo list, the stored context and the gate as they were.
C16_FailedTurnNotRecorded ==
    [][ \A t \in ThreadIds :
          ( /\ threads[t].pc = "ret"
            /\ threads[t].op = "turn"
            /\ threads[t].result.kind = "value"
            /\ threads[t].outcome # "success"
            /\ FinishTurn(t) )
          => /\ last'.op = "turn"
             /\ last'.reply = Apology
             /\ UNCHANGED << context, file, pending >> ]_vars

C16_Witness ==
    /\ last.op = "turn"
    /\ last.outcome = "connection"
    /\ last.reply = Apology
    /\ context.todo_list # <<>>
    /\ file = context
    /\ context.conversation_history = <<>>

NoDuplicates(q) ==
    Cardinality(SeqToSet(q)) = Len(q)

\* C18: the todo list, in memory and as stored, never holds an item twice,
\* also after a turn that found an item the list already had.
C18_NoDuplicateTodos ==
    /\ NoDuplicates(context.todo_list)
    /\ NoDuplicates(file.todo_list)

C18_Witness ==
    /\ last.op = "turn"
    /\ last.overlap
    /\ context.todo_list = << <<"-"," ","T","O","D","O",":"," ","a","d","d"," ","l","o","g","g","i","n","g">> >>
    /\ file.todo_list = context.todo_list

ScenarioTwoItems ==
    { <<"-"," ","t","o","d","o",":"," ","a","d","d"," ","l","o","g","g","i","n","g">>, <<"*"," ","T","a","s","k",":"," ","w","r","i","t","e"," ","t","e","s","t","s">> }

ScenarioThirdLine ==
    <<"-"," ","N","o","t"," ","a"," ","t","a","s","k"," ","l","i","n","e">>

\* C19, as claimed: the three-line reply leaves the two work items
\* '- todo: add logging' and '* Task: write tests' in the todo list, and not
\* its third line.
C19_TwoItems ==
    (last.op = "turn" /\ last.reply = ScenarioReply)
    => SeqToSet(context.todo_list) = ScenarioTwoItems

\* C19, amended: the three-line reply leaves three work items in the todo
\* list: its third line, '- Not a task line', starts with a bullet and holds
\* 'task', so it is extracted like the other two.
C19_ThreeItems ==
    /\ TodoItems(ScenarioReply)
           = << <<"-"," ","t","o","d","o",":"," ","a","d","d"," ","l","o","g","g","i","n","g">>, <<"*"," ","T","a","s","k",":"," ","w","r","i","t","e"," ","t","e","s","t","s">>, ScenarioThirdLine >>
    /\ (last.op = "turn" /\ last.reply = ScenarioReply)
       => /\ SeqToSet(context.todo_list) = ScenarioTwoItems \cup { ScenarioThirdLine }
          /\ Len(context.todo_list) = 3
          /\ file.todo_list = context.todo_list

C19_Witness ==
    /\ last.op = "turn"
    /\ last.reply = ScenarioReply
    /\ ScenarioThirdLine \in SeqToSet(context.todo_list)
    /\ Len(context.todo_list) = 3

\* a numbered-list marker: digits, a dot and a space
StartsWithNumber(line) ==
    \E k \in 1..(Len(line) - 2) :
        /\ \A i \in 1..k : line[i] \in Digits
        /\ line[k + 1] = "."
        /\ line[k + 2] = " "

\* the rule for a work item, as stated
Qualifies(line) ==
    /\ \/ (Len(line) > 0 /\ line[1] \in BulletMarkers)
       \/ StartsWithNumber(line)
    /\ (Contains(Lower(line), TodoWord) \/ Contains(Lower(line), TaskWord))

IndicatorsIn(text) ==
    { k \in 1..Len(confirmation_indicators) :
        Contains(Lower(text), confirmation_indicators[k]) }

\* the text holds the indicator as some spelling of it in upper and lower case
HoldsSpelling(text, indicator) ==
    \E i \in 1..(Len(text) - Len(indicator) + 1) :
        Lower(SubSeq(text, i, i + Len(indicator) - 1)) = indicator

FirstListed(text) ==
    confirmation_indicators[SetMin(IndicatorsIn(text))]

\* the characters of text from index lo (counted from 0) up to hi, excluded
Window(text, lo, hi) ==
    SubSeq(text, lo + 1, hi)

\* C22, as claimed: of several indicators in a reply the first in the list
\* wins, and the question is the reply from max(0, i-100) up to
\* min(len, i+200), i being the index of the first occurrence of the winner.
C22_ExactWindow ==
    [][ (threads[Main].pc = "ret" /\ FinishTurn(Main)
         /\ IndicatorsIn(threads[Main].result.text) # {})
        => LET text == threads[Main].result.text
               i == Find(Lower(text), FirstListed(text))
           IN  pending_question'
                   = Window(text, Max2(0, i - 100), Min2(Len(text), i + 200)) ]_vars

\* C22, amended: of several indicators in a reply the first in the list
\* wins, and the question is the reply from max(0, i-100) up to
\* min(len, i+200) with the whitespace at both ends of that window removed.
C22_TrimmedWindow ==
    [][ (threads[Main].pc = "ret" /\ FinishTurn(Main)
         /\ IndicatorsIn(threads[Main].result.text) # {})
        => LET text == threads[Main].result.text
               i == Find(Lower(text), FirstListed(text))
           IN  pending_question'
                   = Strip(Window(text, Max2(0, i - 100), Min2(Len(text), i + 200))) ]_vars

\* the winner is not the first indicator in the text, and the window loses
\* nothing: 100 characters before and all that follows
C22_Witness ==
    /\ last.op = "turn"
    /\ confirmation_mode
    /\ pending_question
           = Rep("x", 100) \o <<"S","h","o","u","l","d"," ","I"," ","p","r","o","c","e","e","d","?">> \o Rep("y", 50)

\* the window begins and ends on a blank, which the question does not keep
C22_TrimmedWitness ==
    /\ last.op = "turn"
    /\ confirmation_mode
    /\ pending_question
           = Rep("b", 99) \o <<"S","h","a","l","l"," ","I"," ","c","o","n","t","i","n","u","e","?">> \o Rep("c", 182)

\* ------------------------------------------------------------------------
\* C23 .. C28: the store
\* ------------------------------------------------------------------------

\* the file is there and json.load cannot read a context from it
Unparsable ==
    env.format \in { "not_json", "not_utf8" }

\* C23: loading never fails fatally: started on a context file that cannot
\* be parsed, the session gets a new context with an empty history and the
\* default status, and the save that follows leaves a valid file in place.
C23_LoadNeverFatal ==
    [][ (loop # "running" /\ Unparsable /\ StartSession)
        => /\ loop' = "running"
           /\ context'.conversation_history = <<>>
           /\ context'.current_status = "awaiting_user_input"
           /\ env.disk = "ok" => (env'.format = "json" /\ file' = context') ]_vars

ContextFields ==
    { "created_at", "last_updated", "conversation_history", "project_goal",
      "todo_list", "current_status" }

C25_StoredEqualsMemory ==
    LoopReady => (env.format = "json" /\ file = context)

\* C25, amended: the context is written after each mutation, and when the
\* write succeeds the stored context is the context in memory; a write that
\* fails is only reported, and the file then holds an earlier context, or
\* none, until a later write succeeds.
C25_StoredAfterWrite ==
    [][ (env.disk = "ok" /\ loop' = "running" /\ context' # context)
        => (env'.format = "json" /\ file' = context') ]_vars

C25_Witness ==
    /\ LoopReady
    /\ last.op = "turn"
    /\ Len(context.conversation_history) = 2
    /\ env.format = "json"
    /\ file = context

\* the write of a turn has failed: the file holds less than the memory
C25_Behind ==
    /\ LoopReady
    /\ last.op = "turn"
    /\ env.format = "json"
    /\ Len(file.conversation_history) < Len(context.conversation_history)

IsPrefix(s, t) ==
    /\ Len(s) <= Len(t)
    /\ SubSeq(t, 1, Len(s)) = s

\* C26: within a session the history is append-only: every step leaves the
\* history it found, entry for entry, and at most adds entries at the end.
C26_AppendOnly ==
    [][ (loop = "running" /\ loop' = "running")
        => IsPrefix(context.conversation_history, context'.conversation_history) ]_vars

C26_Witness ==
    /\ loop = "running"
    /\ last.op = "turn"
    /\ Len(context.conversation_history) = 2
    /\ context.conversation_history[1].agent_response
           # context.conversation_history[2].agent_response

\* C27: in every context of the store last_updated is not before
\* created_at, and no save makes last_updated smaller than it was.
C27_LastUpdatedMonotone ==
    [][ /\ loop' = "running" => context'.last_updated >= context'.created_at
        /\ (loop = "running" /\ loop' = "running")
           => context'.last_updated >= context.last_updated ]_vars

\* C28: the history is strictly time-ordered: of two entries the one
\* appended later has the later timestamp. Stated in the weaker form two
\* equal readings of the clock do not violate: it never has an earlier one.
C28_TimeOrdered ==
    loop = "running"
    => \A i, j \in 1..Len(context.conversation_history) :
           i < j => context.conversation_history[i].timestamp
                        <= context.conversation_history[j].timestamp

\* the threads that are inside _call_llm: at a request or between two
InCall ==
    { t \in ThreadIds : threads[t].pc \in { "attempt", "sleep" } }

\* C29: at most one backend call is in flight per session at any time, in
\* the window too, where each turn and each connection test runs on a worker
\* thread of its own over the one session object.
C29_OneCallInFlight ==
    Cardinality(InCall) <= 1

\* the lines of the prompt that begin an entry
EntryHeaders(lines) ==
    { i \in 1..Len(lines) : StartsWith(lines[i], <<"-","-","-"," ","E","n","t","r","y"," ">>) }

\* C30: whatever the length n of the history, the prompt of a turn holds
\* the min(n, 10) most recent entries and no other, oldest first and
\* numbered from 1, so never more than 10; for an empty history it holds
\* the words 'No previous conversation.'.
C30_HistoryWindow ==
    [][ (threads[Main].pc = "idle" /\ threads'[Main].pc = "attempt"
         /\ threads'[Main].op = "turn")
        => \A history \in { context.conversation_history },
              lines \in { SplitLines(threads'[Main].prompt) } :
           LET n == Len(history)
               k == Min2(n, 10)
           IN  IF n = 0
               THEN threads'[Main].prompt = <<"N","o"," ","p","r","e","v","i","o","u","s"," ","c","o","n","v","e","r","s","a","t","i","o","n",".">>
               ELSE /\ Cardinality(EntryHeaders(lines)) = k
                    /\ k <= 10
                    /\ \A m \in 1..k :
                         LET entry == history[n - k + m]
                             at == 4 * (m - 1) + 1
                         IN  /\ lines[at] = <<"-","-","-"," ","E","n","t","r","y"," ">> \o NatToText(m) \o <<" ","(">>
                                                \o IsoFormat(entry.timestamp) \o <<")"," ","-","-","-">>
                             /\ lines[at + 1] = <<"U","s","e","r",":"," ">> \o entry.user_input
                             /\ lines[at + 2] = <<"A","g","e","n","t",":"," ">> \o entry.agent_response ]_vars

\* a turn on a history of more than ten entries: the prompt begins with the
\* second of them
C30_Witness ==
    /\ threads[Main].pc = "attempt"
    /\ Len(context.conversation_history) = 11
    /\ StartsWith(threads[Main].prompt,
                  <<"-","-","-"," ","E","n","t","r","y"," ","1"," ","(">> \o IsoFormat(context.conversation_history[2].timestamp))

\* a turn on an empty history
C30_EmptyWitness ==
    /\ threads[Main].pc = "attempt"
    /\ context.conversation_history = <<>>
    /\ threads[Main].prompt = <<"N","o"," ","p","r","e","v","i","o","u","s"," ","c","o","n","v","e","r","s","a","t","i","o","n",".">>

\* ------------------------------------------------------------------------
\* C31, C32: the file operations
\* ------------------------------------------------------------------------

\* C31: a step of a file operation that creates, overwrites or deletes a
\* project file is the answer to an approval that the operation asked.
C31_ApprovalBeforeMutation ==
    [][ files' # files
          => /\ threads[Main].pc = "approval"
             /\ last'.asked = << threads[Main].question >> ]_vars

\* r is t with whitespace before and after it
Padded(r, t) ==
    \E i \in 0..Len(r) :
        \E j \in i..Len(r) :
            /\ SubSeq(r, i + 1, j) = t
            /\ \A k \in (1..i) \cup ((j + 1)..Len(r)) : r[k] \in Whitespace

\* the answers that are nothing, y or yes, in any case
NamedApprovals ==
    { r \in ApprovalLines : Lower(r) \in { <<>>, <<"y">>, <<"y","e","s">> } }

\* the same with whitespace around them
PaddedApprovals ==
    { r \in ApprovalLines :
        \E t \in { <<>>, <<"y">>, <<"y","e","s">> } : Padded(Lower(r), t) }

\* what the file of the operation waiting for its answer comes to hold when
\* the operation is carried out
Target ==
    IF threads[Main].op = "delete" THEN Absent ELSE threads[Main].content

\* C32 as stated: at the approval prompt an answer of nothing, y or yes (any
\* case) lets the operation go ahead, and every other answer makes it return
\* failure with the files as they were.
C32_ExactAnswers ==
    [][ \A r \in ApprovalLines :
          (threads[Main].pc = "approval" /\ last'.answers = << r >> /\ ApprovalAnswer(r))
          => /\ (r \in NamedApprovals /\ env.disk = "ok")
                    => /\ last'.returned
                       /\ files'[threads[Main].path] = Target
             /\ r \notin NamedApprovals
                    => /\ ~last'.returned
                       /\ files' = files ]_vars

\* C32: at the approval prompt an answer that is nothing, y or yes (any case)
\* once the whitespace around it is removed lets the operation go ahead, and
\* every other answer makes it return failure with the files as they were.
C32_TrimmedAnswers ==
    [][ \A r \in ApprovalLines :
          (threads[Main].pc = "approval" /\ last'.answers = << r >> /\ ApprovalAnswer(r))
          => /\ (r \in PaddedApprovals /\ env.disk = "ok")
                    => /\ last'.returned
                       /\ files'[threads[Main].path] = Target
                       /\ \A p \in Paths \ { threads[Main].path } : files'[p] = files[p]
             /\ r \notin PaddedApprovals
                    => /\ ~last'.returned
                       /\ files' = files ]_vars

\* an overwrite went ahead on an empty answer
C32_Witness ==
    /\ last.op = "create"
    /\ last.asked # <<>>
    /\ last.answers = << <<>> >>
    /\ last.returned
    /\ files[last.path] = last.content

\* a delete was declined and the file is there
C32_DeclinedWitness ==
    /\ last.op = "delete"
    /\ last.answers = << <<"n","o">> >>
    /\ ~last.returned
    /\ files[last.path] # Absent

\* ------------------------------------------------------------------------
\* C33: a save that fails
\* ------------------------------------------------------------------------

\* this step is the end of a turn of the loop that records the exchange, in a
\* directory that does not take the write
SaveFails ==
    /\ threads[Main].pc = "ret"
    /\ threads[Main].op = "turn"
    /\ threads[Main].result.kind = "value"
    /\ ~StartsWith(threads[Main].result.text, ErrorMarker)
    /\ env.disk # "ok"
    /\ FinishTurn(Main)

\* C33: a turn whose save fails prints the failure, raises nothing, returns
\* its reply with the exchange recorded in memory, and leaves the loop
\* waiting for the next line.
C33_SaveFailureNotFatal ==
    [][ SaveFails
          => /\ StartsWith(last'.report, <<"E","r","r","o","r"," ","s","a","v","i","n","g"," ","c","o","n","t","e","x","t",":"," ">>)
             /\ ~last'.raised
             /\ last'.reply = TurnReplyFor(threads[Main].result.text)
             /\ Len(context'.conversation_history) = Len(context.conversation_history) + 1
             /\ loop' = "running"
             /\ threads'[Main].pc = "idle"
             /\ pending' = pending ]_vars

\* a second turn has been taken and has returned after the save of the first
\* had failed; nothing of either is in the file
C33_Witness ==
    /\ LoopReady
    /\ last.op = "turn"
    /\ last.report # <<>>
    /\ ~last.raised
    /\ Len(context.conversation_history) = 2
    /\ Len(file.conversation_history) = 0

\* ------------------------------------------------------------------------
\* C34 .. C38: the call and the gate
\* ------------------------------------------------------------------------

\* the call of the main thread has returned after MAX_RETRIES requests, the
\* last of which failed in a way the loop retries
Exhausted ==
    /\ threads[Main].pc = "ret"
    /\ Len(threads[Main].kinds) = MAX_RETRIES
    /\ threads[Main].kinds[MAX_RETRIES] \in { "timeout", "not_json" } \cup BackoffKinds

\* which of the three error values of an exhausted call a text is
ErrorValueKind(text) ==
    CASE text = ErrTimeout -> "timeout error"
      [] text = ErrConnect -> "connection error"
      [] StartsWith(text, ErrCommunicate) -> "generic error"
      [] OTHER -> "none of them"

\* the error value that belongs to a failure of a request
ErrorValueFor(kind) ==
    CASE kind = "timeout" -> "timeout error"
      [] kind = "connection" -> "connection error"
      [] OTHER -> "generic error"

\* C34: the error value of a call that has used up its attempts is the one
\* that belongs to the failure of the last request, whatever the requests
\* before it failed with.
C34_FinalAttemptDecides ==
    Exhausted
        => /\ threads[Main].result.kind = "value"
           /\ ErrorValueKind(threads[Main].result.text)
                  = ErrorValueFor(threads[Main].kinds[MAX_RETRIES])

\* a refused connection, a failure of the transport and then a timeout
C34_Witness ==
    /\ Exhausted
    /\ threads[Main].kinds = << "connection", "transport", "timeout" >>
    /\ threads[Main].result.text = ErrTimeout

\* the follow-up call of an approved confirmation has returned on the main
\* thread without a reply: its last request failed
FollowUpFailed ==
    /\ threads[Main].pc = "ret"
    /\ threads[Main].op = "confirm"
    /\ threads[Main].outcome # "success"

\* C35: the pending state is cleared when the follow-up call is entered and
\* while it runs under the loop; when the call fails the operation returns
\* the error value of the call as its reply, starts no other call and does
\* not set the gate, which under the loop is READY.
C35_ClearedBeforeFollowUp ==
    [][ /\ (surface = "cli" /\ threads'[Main].op = "confirm"
                /\ threads'[Main].pc \in { "attempt", "ret" })
              => pending' = {}
        /\ (FollowUpFailed /\ FinishConfirmation(Main))
              => /\ last'.reply = threads[Main].result.text
                 /\ StartsWith(last'.reply, ErrorMarker)
                 /\ threads'[Main].pc = "idle"
                 /\ NoCallStarted
                 /\ pending' = pending
                 /\ (surface = "cli" => pending' = {}) ]_vars

\* an approval was given, the follow-up call timed out, and the gate is READY
C35_Witness ==
    /\ surface = "cli"
    /\ last.op = "confirm"
    /\ IsAffirmative(last.input)
    /\ last.calls = 1
    /\ last.outcome = "timeout"
    /\ last.reply = ErrTimeout
    /\ ~confirmation_mode
    /\ LoopReady

\* C36: when the follow-up call returns, the operation returns its value as
\* it is and changes neither the context, nor the file, nor the gate.
C36_FollowUpReplyNotInterpreted ==
    [][ FinishConfirmation(Main)
          => /\ threads[Main].result.kind = "value" => last'.reply = threads[Main].result.text
             /\ context' = context
             /\ file' = file
             /\ pending' = pending ]_vars

\* the reply to a follow-up call listed a work item and asked for approval:
\* it was returned, the item is not in the todo list, the history does not
\* hold the reply and the gate is READY
C36_Witness ==
    /\ surface = "cli"
    /\ last.op = "confirm"
    /\ last.outcome = "success"
    /\ Interpret(last.reply).needs_confirmation
    /\ Interpret(last.reply).todo_items # <<>>
    /\ SeqToSet(Interpret(last.reply).todo_items) \cap SeqToSet(context.todo_list) = {}
    /\ \A i \in 1..Len(context.conversation_history) :
           context.conversation_history[i].agent_response # last.reply
    /\ ~confirmation_mode

\* the call of a turn of thread t has returned a reply that lists work items
\* and asks for approval
ItemsAndApproval(t) ==
    /\ threads[t].pc = "ret"
    /\ threads[t].op = "turn"
    /\ threads[t].result.kind = "value"
    /\ ~StartsWith(threads[t].result.text, ErrorMarker)
    /\ Interpret(threads[t].result.text).needs_confirmation
    /\ Interpret(threads[t].result.text).todo_items # <<>>

\* C37: a turn whose reply lists work items and asks for approval puts the
\* items into the todo list, writes the list to the file and enters the
\* gate; no later step takes an item out of the todo list.
C37_TodoBeforeGate ==
    [][ /\ \A t \in ThreadIds :
              (ItemsAndApproval(t) /\ FinishTurn(t))
              => /\ \A item \in SeqToSet(Interpret(threads[t].result.text).todo_items) :
                        Strip(item) # <<>>
                            => Strip(item) \in SeqToSet(context'.todo_list)
                 /\ context'.todo_list # context.todo_list
                        \/ SeqToSet(Interpret(threads[t].result.text).todo_items)
                               \subseteq SeqToSet(context.todo_list)
                 /\ file'.todo_list = context'.todo_list
                 /\ confirmation_mode'
                 /\ last'.reply = AwaitingMarker
        /\ SeqToSet(context.todo_list) \subseteq SeqToSet(context'.todo_list) ]_vars

\* the approval a turn asked for was refused; the work item its reply listed
\* is in the todo list, and no exchange is in the history
C37_Witness ==
    /\ last.op = "confirm"
    /\ last.reply = CancelNotice
    /\ ~confirmation_mode
    /\ context.conversation_history = <<>>
    /\ <<"-"," ","T","O","D","O",":"," ","a","d","d"," ","l","o","g","g","i","n","g">> \in SeqToSet(context.todo_list)
    /\ file.todo_list = context.todo_list

\* C38: the line 'clear' typed at the loop leaves the gate READY, starts no
\* call and leaves the context, the file and the loop as they are; typed
\* while the gate is READY it changes nothing of the session.
C38_ClearLeavesGate ==
    [][ \A line \in UserLines :
          (LoopReady /\ LoopClear(line))
          => /\ Lower(Strip(line)) = ClearCommand
             /\ pending' = {}
             /\ NoCallStarted
             /\ last'.calls = 0
             /\ UNCHANGED << context, file, loop, threads >> ]_vars

\* clear was typed while a confirmation was pending, and the gate is READY
C38_Witness ==
    /\ last.op = "clear"
    /\ last.was_pending
    /\ ~confirmation_mode
    /\ LoopReady

\* clear was typed while the gate was READY
C38_ReadyWitness ==
    /\ last.op = "clear"
    /\ ~last.was_pending
    /\ ~confirmation_mode

\* ------------------------------------------------------------------------
\* C39, C40: what a session loads, and two sessions on one directory
\* ------------------------------------------------------------------------

\* C39: while the session runs, the context it holds has every field of a
\* context, and no turn raises.
C39_ContextWellFormed ==
    loop = "running"
        => /\ ContextFields \subseteq DOMAIN context
           /\ last.op = "turn" => ~last.raised

\* a turn on a context without a history list has called the backend and
\* raised instead of returning the reply
C39_TurnFails ==
    /\ loop = "running"
    /\ last.op = "turn"
    /\ last.raised
    /\ last.calls = 1
    /\ last.outcome = "success"
    /\ "conversation_history" \notin DOMAIN context

\* C40: a save writes the whole context of the session that saves, whatever
\* the file held: after a turn of either session the file holds the context
\* of that session.
C40_SaveWritesOwnContext ==
    [][ /\ (threads[Main].pc = "ret" /\ FinishTurn(Main) /\ context' # context)
              => file' = context'
        /\ (peer.loop = "running" /\ peer'.loop = "running" /\ peer' # peer)
              => file' = peer'.context ]_vars

\* lost update: the first session has recorded an exchange, which its save
\* wrote to the file, and the file, written since by the second session,
\* does not hold it
C40_Witness ==
    /\ LoopReady
    /\ peer.loop = "running"
    /\ Len(context.conversation_history) = 1
    /\ Len(peer.context.conversation_history) = 1
    /\ file = peer.context
    /\ \A i \in 1..Len(file.conversation_history) :
           file.conversation_history[i] # context.conversation_history[1]

====
